---- MODULE Spec2Model ----
(***************************************************************************)
(* Model of src/src/database/db_manager.py: the DBManager query router     *)
(* (retry loop, DuckDB fallback, opportunistic sync) and the DuckDBMirror  *)
(* sync state machine (is_ready, sync_from_sql_dump, maybe_sync, ensure).  *)
(* One router or mirror call is in progress at a time (the callers are     *)
(* single-threaded); the dump file, the clock and the mirror file belong   *)
(* to the environment and may change between the steps of a call.          *)
(***************************************************************************)
EXTENDS Integers, Sequences, FiniteSets, TLC

\* ------------------------------------------------------------------ bounds
MaxRetriesArg == 2      \* largest max_retries handed to the constructor
MaxMtime == 2           \* dump modification times range over 1..MaxMtime
MaxTime == 2            \* the monotonic clock ranges over 1..MaxTime
MaxEntries == 3         \* a dump holds at most MaxEntries items
MaxRebuilds == 2        \* rebuilds run one after the other from one dump
MaxRows == 3            \* vip_products holds at most MaxRows rows
MaxCoord == 1           \* embedding coordinates range over 0..MaxCoord
MaxLimit == 2           \* largest limit handed to vector_similarity
MaxLines == 4           \* the parser reads dumps of at most MaxLines lines
MaxCalls == 4           \* get_db is called at most MaxCalls times

\* --------------------------------------------------------------- constants
\* _DEFAULT_DUCKDB_TABLES: the tables the mirror requires.
DefaultDuckdbTables == {"app_inventory", "vip_products", "vip_brands"}

\* Tables a dump may define: all mirrored ones, or only part of them.
DumpTableSets == {DefaultDuckdbTables, {"app_inventory"}}

\* Tables a query_df call may read ("orders" is in no dump).
QueryTables == {"app_inventory", "orders"}

\* ----------------------------------------------------------------- errors
Err(t, m) == [type |-> t, msg |-> m]
NoErr == Err("none", <<>>)

\* Errors the primary client may raise on connect or while running a query.
ConnRefused == Err("OperationalError", <<"Connection", "refused">>)
SyntaxErr == Err("OperationalError", <<"syntax", "error", "at", "or", "near", "SELECT">>)
OtherRefused == Err("InterfaceError", <<"Connection", "refused">>)
PrimaryErrors == {ConnRefused, SyntaxErr, OtherRefused}

\* Where each of them is raised: by engine.connect() or by the query itself.
PrimaryFailures ==
    { <<ConnRefused, "connect">>, <<OtherRefused, "connect">>, <<SyntaxErr, "read_sql">> }

\* Errors raised by the mirror side.
MirrorQueryErr == Err("CatalogException", <<"table", "does", "not", "exist">>)
DumpVanishedErr == Err("FileNotFoundError", <<"no", "such", "file", "or", "directory">>)

\* str.lower() on the words that occur in the messages above.
Lower(w) ==
    CASE w = "Connection" -> "connection"
      [] w = "SELECT" -> "select"
      [] OTHER -> w

\* The keyword set of _is_transient_operational_error.
TransientKeywords ==
    { <<"connection", "refused">>,
      <<"could", "not", "connect">>,
      <<"connection", "timed", "out">>,
      <<"server", "closed", "the", "connection">>,
      <<"connection", "not", "open">>,
      <<"no", "such", "host">>,
      <<"terminating", "connection", "due", "to", "administrator", "command">> }

\* keyword in message (substring test, on words).
Contains(msg, kw) ==
    \E i \in 1..(Len(msg) - Len(kw) + 1) :
        \A j \in 1..Len(kw) : Lower(msg[i + j - 1]) = kw[j]

IsTransientOperationalError(e) ==
    \E kw \in TransientKeywords : Contains(e.msg, kw)

\* ------------------------------------------------------------------ values
NoFile == [exists |-> FALSE, tables |-> {}, src |-> 0]
MirrorFile(ts, m) == [exists |-> TRUE, tables |-> ts, src |-> m]

NoDump == [exists |-> FALSE, mtime |-> 0, tables |-> {}]
DumpFile(m, ts) == [exists |-> TRUE, mtime |-> m, tables |-> ts]

NoResult == [src |-> "none", q |-> "none", ver |-> 0]
PrimaryResult(q) == [src |-> "primary", q |-> q, ver |-> 0]
MirrorRows(f, q) == [src |-> "mirror", q |-> q, ver |-> f.src]

NoSnapshot == [file |-> NoFile, last_sync |-> 0, last_dump_mtime |-> 0]

\* No history of rebuild attempts is kept; none has been made yet.
NoHistory == [any |-> -1, ok |-> -1]
NoAttempt == [any |-> 0, ok |-> 0]

Max(a, b) == IF a >= b THEN a ELSE b

Count(s, x) == Cardinality({i \in 1..Len(s) : s[i] = x})

\* ------------------------------------------------- dump lines and entries

\* A dump is a sequence of items; every item is one or more lines.
LoadTables == {"vip_products", "vip_brands"}

Line(k, t) == [kind |-> k, table |-> t]

CreateItem(t) == [item |-> "create", table |-> t, cols |-> FALSE, good |-> TRUE]
BlockItem(t, c, g) == [item |-> "block", table |-> t, cols |-> c, good |-> g]
BadHeaderItem == [item |-> "bad_header", table |-> "vip_products", cols |-> FALSE, good |-> TRUE]
OpenBlockItem == [item |-> "open_block", table |-> "vip_products", cols |-> TRUE, good |-> TRUE]
CommentItem == [item |-> "comment", table |-> "none", cols |-> FALSE, good |-> TRUE]

DumpItems ==
    {CreateItem(t) : t \in LoadTables}
        \cup {BlockItem("vip_products", TRUE, g) : g \in BOOLEAN}
        \cup {BlockItem("vip_brands", FALSE, TRUE)}
        \cup {BadHeaderItem, OpenBlockItem, CommentItem}

\* The lines of one item: "CREATE TABLE t (...);", a COPY block (header with
\* or without a column list, one data row, the terminator "\."), a COPY
\* block whose header has options after "FROM stdin", a block without its
\* terminator, a "--" comment.
ItemLines(it) ==
    CASE it.item = "create" -> <<Line("create", it.table)>>
      [] it.item = "block" ->
            <<Line(IF it.cols THEN "copy" ELSE "copy_nocols", it.table),
              Line(IF it.good THEN "row" ELSE "badrow", it.table),
              Line("term", it.table)>>
      [] it.item = "bad_header" ->
            <<Line("copy_bad", it.table), Line("row", it.table), Line("term", it.table)>>
      [] it.item = "open_block" ->
            <<Line("copy", it.table), Line("row", it.table)>>
      [] OTHER -> <<Line("comment", "none")>>

RECURSIVE DumpLines(_)
DumpLines(items) ==
    IF items = <<>> THEN <<>>
    ELSE ItemLines(Head(items)) \o DumpLines(Tail(items))

RECURSIVE SeqsUpTo(_, _)
SeqsUpTo(S, n) ==
    IF n = 0 THEN {<<>>}
    ELSE LET shorter == SeqsUpTo(S, n - 1)
         IN shorter \cup {Append(s, x) : s \in shorter, x \in S}

\* raw_line.rstrip().endswith(";"): a statement's last line, a COPY header,
\* or any other line whose last character is ";" ("row_semi": "1\tGin;").
EndsStatement(ln) == ln.kind \in {"create", "copy", "copy_nocols", "copy_bad", "row_semi"}

\* "".join(statement_lines).strip(): the blank lines in front of the
\* statement's text go (its last line ends with ";", so none follows).
RECURSIVE StripBlank(_)
StripBlank(statement) ==
    IF statement # <<>> /\ Head(statement).kind = "blank"
    THEN StripBlank(Tail(statement))
    ELSE statement

\* statement_upper.startswith("COPY ") and "from stdin" in statement_lower
LooksLikeCopy(statement) ==
    statement[1].kind \in {"copy", "copy_nocols", "copy_bad"}

\* _parse_copy_command: the regular expression wants "FROM stdin" at the end.
ParseCopyCommand(statement) ==
    IF Len(statement) = 1 /\ statement[1].kind \in {"copy", "copy_nocols"}
    THEN [parsed |-> TRUE, table |-> statement[1].table, cols |-> statement[1].kind = "copy"]
    ELSE [parsed |-> FALSE, table |-> "none", cols |-> FALSE]

\* Spool files: the one the generator writes a block's rows to, named after
\* the line of the block's header, and the one _execute_copy writes when the
\* rows were kept in memory.
NoPath == [by |-> "none", at |-> 0]
SpoolPath(who, i) == [by |-> who, at |-> i]

NoCopy == [active |-> FALSE, table |-> "none", cols |-> FALSE, data |-> <<>>, temp_path |-> NoPath]
CopyInfo(t, c, d, p) == [active |-> TRUE, table |-> t, cols |-> c, data |-> d, temp_path |-> p]

NoEntry == [kind |-> "none", statement |-> <<>>, table |-> "none", cols |-> FALSE, data |-> <<>>]
SqlEntry(statement) ==
    [kind |-> "sql", statement |-> statement, table |-> "none", cols |-> FALSE, data |-> <<>>]
CopyEntry(ci) ==
    [kind |-> "copy", statement |-> <<>>, table |-> ci.table, cols |-> ci.cols, data |-> ci.data]

\* Variant: inside a block a line that ends with ";" is yielded as a
\* statement instead of being kept as a data row.
ParseLineRowsEndStatements(sl, ci, ln, i, spool_ok) ==
    IF ci.active
    THEN IF ln.kind = "term"
         THEN [sl |-> sl, ci |-> ci, out |-> CopyEntry(ci)]
         ELSE IF EndsStatement(ln)
              THEN [sl |-> sl, ci |-> ci, out |-> SqlEntry(<<ln>>)]
              ELSE [sl |-> sl, ci |-> [ci EXCEPT !.data = Append(@, ln)], out |-> NoEntry]
    ELSE IF sl = <<>> /\ ln.kind = "comment"
         THEN [sl |-> sl, ci |-> ci, out |-> NoEntry]
         ELSE IF ~EndsStatement(ln)
              THEN [sl |-> Append(sl, ln), ci |-> ci, out |-> NoEntry]
              ELSE LET statement == StripBlank(Append(sl, ln))
                       parsed == ParseCopyCommand(statement)
                   IN IF LooksLikeCopy(statement)
                      THEN IF ~parsed.parsed
                           THEN [sl |-> <<>>, ci |-> ci, out |-> NoEntry]
                           ELSE [sl |-> <<>>,
                                 ci |-> CopyInfo(parsed.table, parsed.cols, <<>>,
                                                 IF spool_ok THEN SpoolPath("parser", i)
                                                 ELSE NoPath),
                                 out |-> NoEntry]
                      ELSE [sl |-> <<>>, ci |-> ci, out |-> SqlEntry(statement)]

\* One turn of the for loop of _iterate_dump_entries on line ln (number i),
\* from the generator's locals statement_lines (sl) and copy_info (ci);
\* spool_ok says whether NamedTemporaryFile succeeds. The result holds the
\* new locals and the entry yielded, if any. copy_info is still set when a
\* block is yielded: the generator clears it when it is resumed.
ParseLine(sl, ci, ln, i, spool_ok) ==
    IF ci.active
    THEN IF ln.kind = "term"
         THEN [sl |-> sl, ci |-> ci, out |-> CopyEntry(ci)]
         ELSE [sl |-> sl, ci |-> [ci EXCEPT !.data = Append(@, ln)], out |-> NoEntry]
    ELSE IF sl = <<>> /\ ln.kind = "comment"
         THEN [sl |-> sl, ci |-> ci, out |-> NoEntry]
         ELSE IF ~EndsStatement(ln)
              THEN [sl |-> Append(sl, ln), ci |-> ci, out |-> NoEntry]
              ELSE LET statement == StripBlank(Append(sl, ln))
                       parsed == ParseCopyCommand(statement)
                   IN IF LooksLikeCopy(statement)
                      THEN IF ~parsed.parsed
                           THEN [sl |-> <<>>, ci |-> ci, out |-> NoEntry]
                           ELSE [sl |-> <<>>,
                                 ci |-> CopyInfo(parsed.table, parsed.cols, <<>>,
                                                 IF spool_ok THEN SpoolPath("parser", i)
                                                 ELSE NoPath),
                                 out |-> NoEntry]
                      ELSE [sl |-> <<>>, ci |-> ci, out |-> SqlEntry(statement)]

\* The entries _iterate_dump_entries yields for the lines ls, in order, when
\* its consumer takes them all and nothing fails.
RECURSIVE IterateFrom(_, _, _, _)
IterateFrom(ls, i, sl, ci) ==
    IF i > Len(ls) THEN <<>>
    ELSE LET r == ParseLine(sl, ci, ls[i], i, TRUE)
         IN IF r.out = NoEntry
            THEN IterateFrom(ls, i + 1, r.sl, r.ci)
            ELSE <<r.out>> \o IterateFrom(ls, i + 1, r.sl,
                                          IF r.out.kind = "copy" THEN NoCopy ELSE r.ci)

IterateDumpEntries(ls) == IterateFrom(ls, 1, <<>>, NoCopy)

\* The store a rebuild writes and the live file: per table the number of
\* rows, Absent for a table that does not exist.
Absent == 0 - 1
NoDb == [exists |-> FALSE, rows |-> [t \in LoadTables |-> Absent]]
EmptyDb == [exists |-> TRUE, rows |-> [t \in LoadTables |-> Absent]]
OldDb == [exists |-> TRUE, rows |-> [t \in LoadTables |-> 1]]
Unset == [exists |-> FALSE, rows |-> [t \in LoadTables |-> 0]]

\* _execute_sql_statement: CREATE TABLE of a new table creates it; an error
\* of conn.execute (the table exists, the statement is not SQL) is swallowed.
ExecuteSqlStatement(db, statement) ==
    IF /\ Len(statement) = 1
       /\ statement[1].kind = "create"
       /\ db.rows[statement[1].table] = Absent
    THEN [db EXCEPT !.rows[statement[1].table] = 0]
    ELSE db

\* The INSERT of _execute_copy succeeds when the table exists and every row
\* has the table's shape.
CopyLoads(db, e) ==
    /\ db.rows[e.table] # Absent
    /\ e.data # <<>>
    /\ \A k \in 1..Len(e.data) : e.data[k].kind = "row"

ExecuteCopy(db, e) ==
    IF CopyLoads(db, e)
    THEN [db EXCEPT !.rows[e.table] = @ + Len(e.data)]
    ELSE db

\* The lines a dump is made of, as the generator tells them apart: a blank
\* line, a "--" comment, a one-line statement, a COPY header, a line that
\* is none of these, a line that ends with ";", the terminator "\.".
ParseLines ==
    {Line(k, IF k \in {"blank", "comment"} THEN "none" ELSE "vip_products") :
        k \in {"blank", "comment", "create", "copy", "row", "row_semi", "term"}}

\* -------------------------------------------------------- statement texts
\* The text of a statement is a sequence of tokens: words, punctuation and
\* white space; low says whether the letters of a word are lower case.
Tok(w, low) == [w |-> w, low |-> low]
Sp == Tok(" ", FALSE)
Semi == Tok(";", FALSE)
NoText == <<>>

IsSpace(t) == t.w \in {" ", "\t"}

\* A string literal of the source, all upper case.
Literal(ws) == [k \in 1..Len(ws) |-> Tok(ws[k], FALSE)]

\* str.strip(): LStrip, then RStrip.
RECURSIVE LStrip(_)
LStrip(text) ==
    IF text # <<>> /\ IsSpace(Head(text)) THEN LStrip(Tail(text)) ELSE text

RECURSIVE RStrip(_)
RStrip(text) ==
    IF text # <<>> /\ IsSpace(text[Len(text)])
    THEN RStrip(SubSeq(text, 1, Len(text) - 1))
    ELSE text

\* str.rstrip(";")
RECURSIVE RStripSemi(_)
RStripSemi(text) ==
    IF text # <<>> /\ text[Len(text)] = Semi
    THEN RStripSemi(SubSeq(text, 1, Len(text) - 1))
    ELSE text

\* str.upper()
Upper(text) == [k \in 1..Len(text) |-> Tok(text[k].w, FALSE)]

\* str.startswith(prefix)
StartsWith(text, prefix) ==
    /\ Len(prefix) <= Len(text)
    /\ SubSeq(text, 1, Len(prefix)) = prefix

\* "word" in text
ContainsTok(text, t) == \E k \in 1..Len(text) : text[k] = t

\* skip_prefixes of _execute_sql_statement
SkipPrefixes ==
    {Literal(ws) : ws \in
        {<<"SET", " ">>,
         <<"SELECT", " ", "PG_CATALOG">>,
         <<"SELECT", " ", "CURRENT_SCHEMA">>,
         <<"ALTER", " ", "TABLE">>,
         <<"GRANT", " ">>,
         <<"REVOKE", " ">>,
         <<"COMMENT", " ">>,
         <<"CREATE", " ", "EXTENSION">>,
         <<"DROP", " ", "EXTENSION">>,
         <<"CREATE", " ", "SEQUENCE">>,
         <<"CREATE", " ", "UNIQUE", " ", "INDEX">>,
         <<"CREATE", " ", "INDEX">>}}

VectorType == "VECTOR(3)"
NextvalRegclass == "NEXTVAL('S'::REGCLASS)"
NextvalPlain == "NEXTVAL('S')"

\* re.sub(r"vector\s*\(\s*\d+\s*\)", "TEXT", ..., flags=re.IGNORECASE)
ReplaceVector(text) ==
    [k \in 1..Len(text) |->
        IF text[k].w = VectorType THEN Tok("TEXT", FALSE) ELSE text[k]]

\* re.sub(r"\s+DEFAULT\s+nextval\('[^']+'::regclass\)", "", ...,
\* flags=re.IGNORECASE): the white space in front of DEFAULT goes as well.
RECURSIVE RemoveDefaults(_)
RemoveDefaults(text) ==
    IF text = <<>> THEN <<>>
    ELSE IF /\ Len(text) >= 4
            /\ IsSpace(text[1])
            /\ text[2].w = "DEFAULT"
            /\ IsSpace(text[3])
            /\ text[4].w = NextvalRegclass
         THEN RemoveDefaults(SubSeq(text, 5, Len(text)))
         ELSE <<Head(text)>> \o RemoveDefaults(Tail(text))

\* _rewrite_create_table
RewriteCreateTable(text) == RemoveDefaults(ReplaceVector(text))

\* statement.strip().rstrip(";")
Normalise(statement) == RStripSemi(RStrip(LStrip(statement)))

\* The early returns of _execute_sql_statement (lines 292-312).
SkipsStatement(stmt) ==
    LET upper == Upper(stmt)
    IN \/ stmt = <<>>
       \/ upper \in {Literal(<<"BEGIN">>), Literal(<<"COMMIT">>)}
       \/ \E prefix \in SkipPrefixes : StartsWith(upper, prefix)
       \/ /\ StartsWith(upper, Literal(<<"SELECT", " ">>))
          /\ ContainsTok(upper, Tok("PG_CATALOG", TRUE))

\* _execute_sql_statement: the text handed to conn.execute, NoText when the
\* statement is skipped. An error of conn.execute is swallowed.
ExecutedText(statement) ==
    LET stmt == Normalise(statement)
    IN IF SkipsStatement(stmt) THEN NoText
       ELSE IF StartsWith(Upper(stmt), Literal(<<"CREATE", " ", "TABLE">>))
            THEN RewriteCreateTable(stmt)
            ELSE stmt

\* The statements of a dump, "_" standing for the white space between two
\* words.
StatementTemplates ==
    {<<"SET", "_", "SEARCH_PATH">>,
     <<"BEGIN">>,
     <<"COMMIT">>,
     <<"START", "_", "TRANSACTION">>,
     <<"GRANT", "_", "SELECT">>,
     <<"REVOKE", "_", "ALL">>,
     <<"COMMENT", "_", "ON">>,
     <<"CREATE", "_", "EXTENSION", "_", "VECTOR">>,
     <<"DROP", "_", "EXTENSION", "_", "VECTOR">>,
     <<"CREATE", "_", "INDEX", "_", "I">>,
     <<"CREATE", "_", "UNIQUE", "_", "INDEX", "_", "I">>,
     <<"DROP", "_", "INDEX", "_", "I">>,
     <<"ALTER", "_", "TABLE", "_", "T">>,
     <<"CREATE", "_", "SEQUENCE", "_", "S">>,
     <<"SELECT", "_", "PG_CATALOG", ".SET_CONFIG()">>,
     <<"SELECT", "_", "1">>,
     <<"INSERT", "_", "INTO", "_", "T">>,
     <<"CREATE", "_", "TABLE", "_", "T", "_", "(", "X", "_", "INTEGER", ")">>,
     <<"CREATE", "_", "TABLE", "_", "T", "_", "(", "E", "_", VectorType, ",", "_",
       "ID", "_", "INTEGER", "_", "DEFAULT", "_", NextvalRegclass, ")">>,
     <<"CREATE", "_", "TABLE", "_", "T", "_", "(", "ID", "_", "INTEGER", "_",
       "DEFAULT", "_", NextvalPlain, ")">>,
     <<"CREATE", "_", "UNLOGGED", "_", "TABLE", "_", "T", "_", "(", "E", "_",
       VectorType, ")">>}

Render(tpl, sep, low, lead, tail) ==
    (IF lead THEN <<Sp>> ELSE <<>>)
        \o [k \in 1..Len(tpl) |->
               IF tpl[k] = "_" THEN sep
               ELSE Tok(tpl[k], low /\ tpl[k] \notin {"(", ")", ","})]
        \o tail

StatementTexts ==
    {Render(tpl, sep, low, lead, tail) :
        tpl \in StatementTemplates, sep \in {Sp, Tok("\t", FALSE)}, low \in BOOLEAN,
        lead \in BOOLEAN, tail \in {<<>>, <<Semi>>, <<Sp, Semi>>}}

VARIABLES
    max_retries,        \* DBManager.max_retries
    retry_interval,     \* DBManager.retry_interval
    attached,           \* DBManager._duckdb_mirror is not None
    available,          \* DuckDBMirror.available
    has_dump_path,      \* DuckDBMirror.sql_dump_path is not None
    auto_sync,          \* DuckDBMirror.auto_sync
    sync_interval,      \* DuckDBMirror.sync_interval
    last_sync,          \* DuckDBMirror._last_sync
    last_dump_mtime,    \* DuckDBMirror._last_dump_mtime
    file,               \* the secondary store file at DuckDBMirror.path
    dump,               \* the dump file at DuckDBMirror.sql_dump_path
    now,                \* time.monotonic()
    pc,                 \* position of the call in progress
    op,                 \* the public operation in progress
    qtable,             \* the table read by the query in progress
    force,              \* sync_from_sql_dump's force argument
    attempts,           \* _run_with_retries' local counter
    exc,                \* the OperationalError that left _run_with_retries
    dump_mtime,         \* sync_from_sql_dump's local dump_mtime
    trace,              \* what the call in progress did, in order
    outcome,            \* "none", "returned" or "raised"
    result,             \* the rows returned
    retval,             \* the boolean returned by a mirror operation
    err,                \* the error raised to the caller
    pre,                \* file and MirrorState when the call started
    attempted,          \* when maybe_sync last ran _load_sql_dump, and last with success
    dump_items,         \* the dump a rebuild reads
    li,                 \* number of the line the generator reads next
    statement_lines,    \* _iterate_dump_entries' local statement_lines
    copy_info,          \* _iterate_dump_entries' local copy_info
    entry,              \* the entry the generator yielded last
    lpc,                \* position of the rebuild in progress
    tmpdb,              \* the store file at _load_sql_dump's tmp_path
    live,               \* the store at DuckDBMirror.path
    pre_live,           \* the live store when the rebuild started
    spools,             \* the spool files that exist
    emitted,            \* the entries yielded so far, in order
    rebuilds,           \* rebuilds started
    first_live,         \* the live store after the first rebuild that succeeded
    ok,                 \* what sync_from_sql_dump returned
    skipped,            \* blocks whose INSERT failed in this rebuild
    faulted,            \* an I/O operation raised in this rebuild
    closed,             \* CHECKPOINT and conn.close() were done
    built,              \* the temporary store as conn.close() left it
    dump_lines,         \* the lines of the dump the generator reads
    spans,              \* first and last line of every entry yielded
    sql_text,           \* _execute_sql_statement's argument statement
    executed,           \* the text handed to conn.execute, if any
    spc,                \* position of the _execute_sql_statement call
    stored,             \* the embedding column of vip_products, in stored order
    query_vector,       \* vector_similarity's query_vector
    limit,              \* vector_similarity's limit
    vpc,                \* position of the vector search
    voutcome,           \* "none", "returned" or "raised"
    vresult,            \* the rows returned, by position
    threads,            \* the sync_from_sql_dump call of every thread
    raced,              \* two syncs overlapped, or the dump went back under one
    global_db,          \* the module global _GLOBAL_DB
    db_log,             \* the get_db calls so far, with what each returned
    heap,               \* the dicts and lists that exist, by reference
    last_trace,         \* AgentManager.last_trace
    handed,             \* the trace the caller was handed last
    asked,              \* the arguments of the last request and what the agents did
    reply,              \* what the last call returned or raised
    completed           \* the trace of the last completed request, as it was built

cfgvars == <<max_retries, retry_interval, attached, available, has_dump_path, auto_sync, sync_interval>>
mirrorvars == <<last_sync, last_dump_mtime, file>>
envvars == <<dump, now>>
callvars == <<pc, op, qtable, force, attempts, exc, dump_mtime, trace, outcome, result, retval, err, pre>>
histvars == <<attempted>>
routervars == <<cfgvars, mirrorvars, envvars, callvars, histvars>>
loadvars == <<dump_items, li, statement_lines, copy_info, entry, lpc, tmpdb, live,
              pre_live, spools, emitted, rebuilds, first_live, ok, skipped, faulted,
              closed, built>>
textvars == <<dump_lines, spans, sql_text, executed, spc>>
searchvars == <<stored, query_vector, limit, vpc, voutcome, vresult>>
syncvars == <<threads, raced>>
globalvars == <<global_db, db_log>>
agentvars == <<heap, last_trace, handed, asked, reply, completed>>
appvars == <<syncvars, globalvars, agentvars>>
detailvars == <<loadvars, searchvars, textvars, appvars>>
vars == <<routervars, detailvars>>

\* The router, the loader and the vector search are studied apart: while one
\* runs, the variables of the others keep the values given here.
LoaderOff ==
    /\ dump_items = <<>>
    /\ live = NoDb
    /\ pre_live = NoDb
    /\ tmpdb = NoDb
    /\ first_live = Unset
    /\ lpc = "off"
    /\ li = 0
    /\ statement_lines = <<>>
    /\ copy_info = NoCopy
    /\ entry = NoEntry
    /\ emitted = <<>>
    /\ spools = {}
    /\ rebuilds = 0
    /\ ok = FALSE
    /\ skipped = 0
    /\ faulted = FALSE
    /\ closed = FALSE
    /\ built = NoDb
    /\ dump_lines = <<>>
    /\ spans = <<>>

SearchOff ==
    /\ stored = <<>>
    /\ query_vector = <<>>
    /\ limit = 0
    /\ vpc = "off"
    /\ voutcome = "none"
    /\ vresult = <<>>

StatementOff ==
    /\ sql_text = NoText
    /\ executed = NoText
    /\ spc = "off"

SyncOff ==
    /\ threads = <<>>
    /\ raced = FALSE

\* _GLOBAL_DB is None.
NoDbManager == [id |-> 0, url |-> "none"]

GlobalOff ==
    /\ global_db = NoDbManager
    /\ db_log = <<>>

\* ------------------------------------------------ agent manager: values
\* A text is a sequence of words; the empty text is <<>>.
NoneText == <<"None">>
Apology == <<"I'm", "unable", "to", "answer", "that", "right", "now">>

\* What an agent does with a request: it answers with nothing, with a
\* failure phrase or with a useful text, or it raises.
Kinds == {"empty", "sorry", "good", "raise"}
Text(name, kind) == IF kind = "empty" THEN <<>> ELSE <<name, kind>>

\* A specialist's part in a request: its relevance score (-1: score_request
\* raises) and what handle does.
Behaviour(score, kind) == [score |-> score, kind |-> kind]
Behaviours == {Behaviour(sc, k) : sc \in {0, 1}, k \in Kinds} \cup {Behaviour(-1, "raise")}

\* self.specialist_agents, in the order they were registered.
AgentNames == <<"A", "B">>

Request(u, r, a, b, g) ==
    [user_request |-> u, return_trace |-> r, agents |-> <<a, b>>, general |-> g]
NoRequest == Request("none", FALSE, Behaviour(0, "empty"), Behaviour(0, "empty"), "empty")

\* The objects of the heap: lists and dicts, known by reference.
Refs == {"caller.history", "local", "local.history", "local.general",
         "stored", "stored.history", "stored.general",
         "handed", "handed.history", "handed.general"}
HistoryOf(ref) ==
    CASE ref = "local" -> "local.history" [] ref = "stored" -> "stored.history" [] OTHER -> "handed.history"
GeneralOf(ref) ==
    CASE ref = "local" -> "local.general" [] ref = "stored" -> "stored.general" [] OTHER -> "handed.general"

NoObject == [kind |-> "none"]
ListObject(items) == [kind |-> "list", items |-> items]
EmptyHeap == [r \in Refs |-> NoObject]

\* What a trace holds, with the objects it refers to read through.
NoTrace == [kind |-> "none"]
DeepValue(h, ref) ==
    IF ref = "none" THEN NoTrace
    ELSE [h[ref] EXCEPT !.chat_history = h[h[ref].chat_history],
                        !.general = h[h[ref].general]]

NoReply == [op |-> "none", outcome |-> "none", response |-> <<>>, trace |-> NoTrace]

AgentOff ==
    /\ heap = EmptyHeap
    /\ last_trace = "none"
    /\ handed = "none"
    /\ asked = NoRequest
    /\ reply = NoReply
    /\ completed = NoTrace

\* ------------------------------------------------------------ construction
\* DBManager.__init__: self.max_retries = max(1, max_retries).
ClampRetries(arg) == Max(1, arg)

\* DBManager.__init__: the default of retry_interval, in seconds.
DefaultRetryInterval == 1

\* Variant: is_ready without the dependency test.
IsReadyIgnoresDependency ==
    /\ file.exists
    /\ DefaultDuckdbTables \subseteq file.tables

\* DuckDBMirror.is_ready: the file exists and holds every mirrored table.
IsReady ==
    /\ available
    /\ file.exists
    /\ DefaultDuckdbTables \subseteq file.tables

Snapshot == [file |-> file, last_sync |-> last_sync, last_dump_mtime |-> last_dump_mtime]

BoolStr(b) == IF b THEN "true" ELSE "false"

RouterQueryOps == {"query_df", "vector_similarity"}

Init ==
    /\ attempted = NoHistory
    /\ SyncOff
    /\ GlobalOff
    /\ AgentOff
    /\ \E arg \in 0..MaxRetriesArg : max_retries = ClampRetries(arg)
    /\ retry_interval = DefaultRetryInterval
    /\ available \in BOOLEAN
    /\ \E fallback_enabled \in BOOLEAN : attached = (fallback_enabled /\ available)
    /\ has_dump_path \in BOOLEAN
    /\ auto_sync \in BOOLEAN
    /\ sync_interval \in {0, MaxTime - 1}
    /\ last_sync = 0
    /\ last_dump_mtime = 0
    /\ file \in {NoFile} \cup {MirrorFile(ts, m) : ts \in DumpTableSets, m \in 1..MaxMtime}
    /\ dump \in IF has_dump_path
               THEN {NoDump} \cup {DumpFile(m, ts) : m \in 1..MaxMtime, ts \in DumpTableSets}
               ELSE {NoDump}
    /\ now = 1
    /\ pc = IF attached /\ auto_sync THEN "maybe_sync" ELSE "idle"
    /\ op = IF attached /\ auto_sync THEN "init" ELSE "none"
    /\ qtable = "none"
    /\ force = FALSE
    /\ attempts = 0
    /\ exc = NoErr
    /\ dump_mtime = 0
    /\ trace = <<>>
    /\ outcome = "none"
    /\ result = NoResult
    /\ retval = "none"
    /\ err = NoErr
    /\ pre = [file |-> file, last_sync |-> 0, last_dump_mtime |-> 0]
    /\ LoaderOff
    /\ SearchOff
    /\ StatementOff

\* ------------------------------------------------------ returns and raises
\* Every step hands the trace so far (tr) to what follows it.

\* The call in progress ends: it returns (rows res, boolean rv) or raises e.
Done(tr, oc, res, rv, e) ==
    /\ pc' = "done"
    /\ trace' = tr
    /\ outcome' = oc
    /\ result' = res
    /\ retval' = rv
    /\ err' = e

\* The call in progress goes on at position p.
Goto(tr, p) ==
    /\ pc' = p
    /\ trace' = tr
    /\ UNCHANGED <<outcome, result, retval, err>>

\* Which mirror entry point the call went through.
Via(tr) ==
    IF \E i \in 1..Len(tr) : tr[i] = "ensure" THEN "ensure"
    ELSE IF \E i \in 1..Len(tr) : tr[i] = "maybe_sync" THEN "maybe"
    ELSE "sync"

\* maybe_sync_from_sql_dump returns (None) to its caller: query_df and
\* vector_similarity then return the primary's result.
MaybeSyncReturns(tr) ==
    IF op \in RouterQueryOps
    THEN Done(tr, "returned", result, "none", NoErr)
    ELSE Done(tr, "returned", NoResult, "none", NoErr)

\* Variant: the router queries the mirror whatever ensure_from_sql_dump said.
EnsureReturnsUnchecked(tr, v) ==
    IF op \in RouterQueryOps
    THEN Goto(tr \o <<IF v THEN "ensure_true" ELSE "ensure_false">>, "mirror_query")
    ELSE Done(tr \o <<IF v THEN "ensure_true" ELSE "ensure_false">>,
              "returned", NoResult, BoolStr(v), NoErr)

\* ensure_from_sql_dump returns v: the router goes on to the mirror query
\* when v is true and re-raises the primary error otherwise (bare raise).
EnsureReturns(tr, v) ==
    IF op \in RouterQueryOps
    THEN IF v
         THEN Goto(tr \o <<"ensure_true">>, "mirror_query")
         ELSE Done(tr \o <<"ensure_false">>, "raised", NoResult, "none", exc)
    ELSE Done(tr \o <<IF v THEN "ensure_true" ELSE "ensure_false">>,
              "returned", NoResult, BoolStr(v), NoErr)

\* sync_from_sql_dump returns v to whoever called it.
SyncReturns(tr, v) ==
    LET tr2 == tr \o <<IF v THEN "sync_true" ELSE "sync_false">> IN
    CASE Via(tr) = "ensure" -> EnsureReturns(tr2, v)
      [] Via(tr) = "maybe" -> MaybeSyncReturns(tr2)
      [] OTHER -> Done(tr2, "returned", NoResult, BoolStr(v), NoErr)

\* An exception leaves sync_from_sql_dump: nothing on the way up catches it.
SyncRaises(tr, e) == Done(tr, "raised", NoResult, "none", e)

\* ------------------------------------------------------------- call starts
Begin(o, q, f) ==
    /\ pc = "idle"
    /\ op' = o
    /\ qtable' = q
    /\ force' = f
    /\ attempts' = 0
    /\ exc' = NoErr
    /\ dump_mtime' = 0
    /\ pre' = Snapshot
    /\ UNCHANGED <<detailvars, histvars, cfgvars, mirrorvars, envvars>>

query_df(q) ==
    /\ Begin("query_df", q, FALSE)
    /\ Goto(<<>>, "primary")

vector_similarity ==
    /\ Begin("vector_similarity", "vip_products", FALSE)
    /\ Goto(<<>>, "primary")

execute ==
    /\ Begin("execute", "none", FALSE)
    /\ Goto(<<>>, "primary")

sync_duckdb_backup ==
    /\ Begin("sync_duckdb_backup", "none", TRUE)
    /\ IF attached
       THEN Goto(<<>>, "sync_check")
       ELSE Done(<<>>, "returned", NoResult, "false", NoErr)

\* Direct calls of the mirror's own operations.
sync_from_sql_dump(f) ==
    /\ Begin("sync_from_sql_dump", "none", f)
    /\ Goto(<<>>, "sync_check")

maybe_sync_from_sql_dump ==
    /\ Begin("maybe_sync_from_sql_dump", "none", FALSE)
    /\ Goto(<<>>, "maybe_sync")

ensure_from_sql_dump ==
    /\ Begin("ensure_from_sql_dump", "none", FALSE)
    /\ Goto(<<>>, "ensure")

\* ------------------------------------------------------------ retry loop
\* Variants of the raise condition: the error class is not looked at; the
\* comparison with max_retries is off by one.
ShouldRaiseAnyClass(a, e) == a >= max_retries

ShouldRaiseOffByOne(a, e) == a > max_retries \/ ~IsTransientOperationalError(e)

\* The raise condition of _run_with_retries, after attempts was incremented.
ShouldRaise(a, e) == a >= max_retries \/ ~IsTransientOperationalError(e)

\* _maybe_sync_duckdb is called in the else branch of query_df and of
\* vector_similarity; execute returns straight after _run_with_retries.
SyncsAfterSuccess(o) == o \in RouterQueryOps

\* The operation goes on after _run_with_retries returned res:
\* _maybe_sync_duckdb, which calls the mirror only when one is attached.
AfterPrimary(tr, res) ==
    IF SyncsAfterSuccess(op) /\ attached
    THEN /\ pc' = "maybe_sync"
         /\ trace' = tr
         /\ result' = res
         /\ UNCHANGED <<outcome, retval, err>>
    ELSE Done(tr, "returned", res, "none", NoErr)

\* func() succeeds: connect, then the query or statement itself.
PrimarySucceeds ==
    /\ pc = "primary"
    /\ AfterPrimary(trace \o <<"connect", "read_sql", "ok">>,
                    IF op = "execute" THEN NoResult ELSE PrimaryResult(qtable))
    /\ UNCHANGED <<detailvars, histvars, cfgvars, mirrorvars, envvars, op, qtable, force, attempts, exc, dump_mtime, pre>>

\* Variant: the fallback is tried after any OperationalError.
UseFallbackAnyError(e) == attached

\* The fallback test of the except clause of query_df and vector_similarity.
UseFallback(e) == attached /\ IsTransientOperationalError(e)

\* Variant: execute tries the mirror as well.
PrimaryRaisesAnyOp(tr, e) ==
    /\ exc' = e
    /\ IF UseFallback(e)
       THEN Goto(tr, "ensure")
       ELSE Done(tr, "raised", NoResult, "none", e)

\* The OperationalError e leaves _run_with_retries: query_df and
\* vector_similarity try the mirror, execute lets it through.
PrimaryRaises(tr, e) ==
    /\ exc' = e
    /\ IF op \in RouterQueryOps /\ UseFallback(e)
       THEN Goto(tr, "ensure")
       ELSE Done(tr, "raised", NoResult, "none", e)

\* The end of the except clause of _run_with_retries: time.sleep when
\* retry_interval is not zero, then the loop goes round.
Retry(tr) ==
    Goto(IF retry_interval # 0 THEN tr \o <<"sleep">> ELSE tr, "primary")

\* Variant: the except clause catches every exception class.
HandleFailureAnyException(tr, e) ==
    /\ attempts' = attempts + 1
    /\ IF ShouldRaise(attempts + 1, e)
       THEN PrimaryRaises(tr, e)
       ELSE Retry(tr) /\ UNCHANGED exc

\* Variant: the sleep comes before the raise condition is tested.
HandleFailureSleepsFirst(tr, e) ==
    IF e.type = "OperationalError"
    THEN /\ attempts' = attempts + 1
         /\ IF ShouldRaise(attempts + 1, e)
            THEN PrimaryRaises(IF retry_interval # 0 THEN tr \o <<"sleep">> ELSE tr, e)
            ELSE Retry(tr) /\ UNCHANGED exc
    ELSE /\ Done(tr, "raised", NoResult, "none", e)
         /\ UNCHANGED <<attempts, exc>>

\* What _run_with_retries does with an error e raised by func(): only an
\* OperationalError is caught and counted.
HandleFailure(tr, e) ==
    IF e.type = "OperationalError"
    THEN /\ attempts' = attempts + 1
         /\ IF ShouldRaise(attempts + 1, e)
            THEN PrimaryRaises(tr, e)
            ELSE Retry(tr) /\ UNCHANGED exc
    ELSE /\ Done(tr, "raised", NoResult, "none", e)
         /\ UNCHANGED <<attempts, exc>>

ErrName(e) ==
    CASE e = ConnRefused -> "ConnRefused"
      [] e = SyntaxErr -> "SyntaxErr"
      [] OTHER -> "OtherRefused"

\* func() raises e, on connect (stage "connect") or in the query ("read_sql").
PrimaryFails(e, stage) ==
    /\ pc = "primary"
    /\ HandleFailure(trace \o (IF stage = "connect" THEN <<"connect">> ELSE <<"connect", "read_sql">>)
                           \o <<ErrName(e)>>, e)
    /\ UNCHANGED <<detailvars, histvars, cfgvars, mirrorvars, envvars, op, qtable, force, dump_mtime, pre>>

\* ------------------------------------------------------------------ mirror
\* Variant: ensure_from_sql_dump without the is_ready() shortcut.
EnsureFromSqlDumpAlwaysSyncs ==
    /\ pc = "ensure"
    /\ IF ~available
       THEN EnsureReturns(trace \o <<"ensure">>, FALSE) /\ UNCHANGED force
       ELSE force' = TRUE /\ Goto(trace \o <<"ensure">>, "sync_check")
    /\ UNCHANGED <<detailvars, histvars, cfgvars, mirrorvars, envvars, op, qtable, attempts, exc, dump_mtime, pre>>

\* DuckDBMirror.ensure_from_sql_dump.
EnsureFromSqlDump ==
    /\ pc = "ensure"
    /\ IF ~available
       THEN EnsureReturns(trace \o <<"ensure">>, FALSE) /\ UNCHANGED force
       ELSE IF IsReady
            THEN EnsureReturns(trace \o <<"ensure">>, TRUE) /\ UNCHANGED force
            ELSE force' = TRUE /\ Goto(trace \o <<"ensure">>, "sync_check")
    /\ UNCHANGED <<detailvars, histvars, cfgvars, mirrorvars, envvars, op, qtable, attempts, exc, dump_mtime, pre>>

\* Variant: the throttle also holds when exactly the interval has elapsed.
ThrottledInclusive ==
    /\ sync_interval # 0
    /\ last_sync # 0
    /\ now - last_sync <= sync_interval

\* The throttle of maybe_sync_from_sql_dump: the interval has not elapsed.
Throttled ==
    /\ sync_interval # 0
    /\ last_sync # 0
    /\ now - last_sync < sync_interval

\* Variant: maybe_sync_from_sql_dump without the interval test.
MaybeSyncUnthrottled ==
    /\ pc = "maybe_sync"
    /\ IF ~available \/ ~auto_sync
       THEN MaybeSyncReturns(trace \o <<"maybe_sync">>) /\ UNCHANGED force
       ELSE force' = FALSE /\ Goto(trace \o <<"maybe_sync">>, "sync_check")
    /\ UNCHANGED <<detailvars, histvars, cfgvars, mirrorvars, envvars, op, qtable, attempts, exc, dump_mtime, pre>>

\* DuckDBMirror.maybe_sync_from_sql_dump.
MaybeSyncFromSqlDump ==
    /\ pc = "maybe_sync"
    /\ IF ~available \/ ~auto_sync \/ Throttled
       THEN MaybeSyncReturns(trace \o <<"maybe_sync">>) /\ UNCHANGED force
       ELSE force' = FALSE /\ Goto(trace \o <<"maybe_sync">>, "sync_check")
    /\ UNCHANGED <<detailvars, histvars, cfgvars, mirrorvars, envvars, op, qtable, attempts, exc, dump_mtime, pre>>

\* sync_from_sql_dump, up to the existence check of the dump.
SyncCheck ==
    /\ pc = "sync_check"
    /\ IF ~available \/ ~has_dump_path \/ ~dump.exists
       THEN SyncReturns(trace \o <<"sync">>, FALSE)
       ELSE Goto(trace \o <<"sync">>, "sync_mtime")
    /\ UNCHANGED <<detailvars, histvars, cfgvars, mirrorvars, envvars, op, qtable, force, attempts, exc, dump_mtime, pre>>

\* Variants of the skip test: force is not looked at; the comparison of the
\* modification times is inverted; the comparison is strict.
SkipRebuildIgnoresForce(f, m) ==
    /\ last_dump_mtime # 0
    /\ m <= last_dump_mtime
    /\ file.exists

SkipRebuildInverted(f, m) ==
    /\ ~f
    /\ last_dump_mtime # 0
    /\ m >= last_dump_mtime
    /\ file.exists

SkipRebuildStrict(f, m) ==
    /\ ~f
    /\ last_dump_mtime # 0
    /\ m < last_dump_mtime
    /\ file.exists

\* The skip test of sync_from_sql_dump, on the modification time m just read.
SkipRebuild(f, m) ==
    /\ ~f
    /\ last_dump_mtime # 0
    /\ m <= last_dump_mtime
    /\ file.exists

\* sync_from_sql_dump: os.path.getmtime(dump_path), outside any try, then
\* the skip test.
SyncMtime ==
    /\ pc = "sync_mtime"
    /\ IF ~dump.exists
       THEN SyncRaises(trace \o <<"getmtime">>, DumpVanishedErr) /\ UNCHANGED dump_mtime
       ELSE /\ dump_mtime' = dump.mtime
            /\ IF SkipRebuild(force, dump.mtime)
               THEN SyncReturns(trace \o <<"getmtime", "skip">>, IsReady)
               ELSE Goto(trace \o <<"getmtime">>, "sync_load")
    /\ UNCHANGED <<detailvars, histvars, cfgvars, mirrorvars, envvars, op, qtable, force, attempts, exc, pre>>

\* The steps of _load_sql_dump that may raise: creating the temporary store,
\* opening the dump, the final os.replace.
LoadFailures == {"none", "mkstemp", "open_dump", "replace"}

\* _load_sql_dump raises: a step fails, or the dump is gone when it is opened.
LoadRaises(fail) == fail # "none" \/ ~dump.exists

\* The history after maybe_sync_from_sql_dump ran _load_sql_dump (done says
\* how it ended); attempts through the other entry points are not noted.
Attempted(done) ==
    IF attempted = NoHistory \/ Via(trace) # "maybe"
    THEN attempted
    ELSE [any |-> now, ok |-> IF done THEN now ELSE attempted.ok]

\* Variant: the bookkeeping is done before _load_sql_dump is tried.
SyncLoadEagerBookkeeping(fail) ==
    /\ pc = "sync_load"
    /\ last_sync' = now
    /\ last_dump_mtime' = dump_mtime
    /\ IF LoadRaises(fail)
       THEN /\ SyncReturns(trace \o <<"load", IF fail # "none" THEN "fault" ELSE "no_dump">>, FALSE)
            /\ UNCHANGED file
       ELSE /\ file' = MirrorFile(dump.tables, dump.mtime)
            /\ SyncReturns(trace \o <<"load", "replace">>, TRUE)
    /\ attempted' = Attempted(~LoadRaises(fail))
    /\ UNCHANGED <<detailvars, cfgvars, envvars, op, qtable, force, attempts, exc, dump_mtime, pre>>

\* Variant: a failed rebuild is recorded as an attempt.
SyncLoadRecordsAttempt(fail) ==
    /\ pc = "sync_load"
    /\ IF LoadRaises(fail)
       THEN /\ SyncReturns(trace \o <<"load", IF fail # "none" THEN "fault" ELSE "no_dump">>, FALSE)
            /\ last_sync' = now
            /\ UNCHANGED <<last_dump_mtime, file>>
       ELSE /\ file' = MirrorFile(dump.tables, dump.mtime)
            /\ last_sync' = now
            /\ last_dump_mtime' = dump_mtime
            /\ SyncReturns(trace \o <<"load", "replace">>, TRUE)
    /\ attempted' = Attempted(~LoadRaises(fail))
    /\ UNCHANGED <<detailvars, cfgvars, envvars, op, qtable, force, attempts, exc, dump_mtime, pre>>

\* sync_from_sql_dump: _load_sql_dump under try/except, then the bookkeeping.
\* The temporary store is built from the dump as it is now and replaces the
\* live file in one step; any exception leaves the live file alone.
SyncLoad(fail) ==
    /\ pc = "sync_load"
    /\ IF LoadRaises(fail)
       THEN /\ SyncReturns(trace \o <<"load", IF fail # "none" THEN "fault" ELSE "no_dump">>, FALSE)
            /\ UNCHANGED mirrorvars
       ELSE /\ file' = MirrorFile(dump.tables, dump.mtime)
            /\ last_sync' = now
            /\ last_dump_mtime' = dump_mtime
            /\ SyncReturns(trace \o <<"load", "replace">>, TRUE)
    /\ attempted' = Attempted(~LoadRaises(fail))
    /\ UNCHANGED <<detailvars, cfgvars, envvars, op, qtable, force, attempts, exc, dump_mtime, pre>>

\* The mirror can answer the query of the call in progress.
MirrorCanAnswer ==
    /\ file.exists
    /\ IF op = "vector_similarity"
       THEN {"vip_products", "vip_brands"} \subseteq file.tables
       ELSE qtable \in file.tables

\* The query re-issued against the mirror: DuckDBMirror.query_df under
\* try/except in query_df (raise exc), DuckDBMirror.vector_similarity
\* unguarded in vector_similarity.
MirrorQuery ==
    /\ pc = "mirror_query"
    /\ IF MirrorCanAnswer
       THEN Done(trace \o <<"mirror_query">>, "returned", MirrorRows(file, qtable), "none", NoErr)
       ELSE IF op = "query_df"
            THEN Done(trace \o <<"mirror_query">>, "raised", NoResult, "none", exc)
            ELSE Done(trace \o <<"mirror_query">>, "raised", NoResult, "none", MirrorQueryErr)
    /\ UNCHANGED <<detailvars, histvars, cfgvars, mirrorvars, envvars, op, qtable, force, attempts, exc, dump_mtime, pre>>

\* The caller has its answer; the next call may start.
Return ==
    /\ pc = "done"
    /\ pc' = "idle"
    /\ op' = "none"
    /\ qtable' = "none"
    /\ force' = FALSE
    /\ attempts' = 0
    /\ exc' = NoErr
    /\ dump_mtime' = 0
    /\ trace' = <<>>
    /\ outcome' = "none"
    /\ result' = NoResult
    /\ retval' = "none"
    /\ err' = NoErr
    /\ pre' = NoSnapshot
    /\ UNCHANGED <<detailvars, histvars, cfgvars, mirrorvars, envvars>>

\* ------------------------------------------------------------- environment
\* The environment acts between calls and, where a call can tell, between
\* the steps of a sync: the dump may vanish after the existence check, and
\* may be replaced or vanish between the getmtime and the load.

\* time.monotonic() advances.
Tick ==
    /\ pc = "idle"
    /\ now < MaxTime
    /\ now' = now + 1
    /\ UNCHANGED <<detailvars, histvars, cfgvars, mirrorvars, dump, callvars>>

\* The dump is written or replaced (possibly by an older file).
DumpWrite(m, ts) ==
    /\ has_dump_path
    /\ pc \in {"idle", "sync_load"}
    /\ dump' = DumpFile(m, ts)
    /\ dump' # dump
    /\ UNCHANGED <<detailvars, histvars, cfgvars, mirrorvars, now, callvars>>

DumpRemove ==
    /\ pc \in {"idle", "sync_mtime", "sync_load"}
    /\ dump.exists
    /\ dump' = NoDump
    /\ UNCHANGED <<detailvars, histvars, cfgvars, mirrorvars, now, callvars>>

\* The secondary file is deleted from outside (data directory cleaned).
MirrorFileRemoved ==
    /\ pc = "idle"
    /\ file.exists
    /\ file' = NoFile
    /\ UNCHANGED <<detailvars, histvars, cfgvars, last_sync, last_dump_mtime, envvars, callvars>>

\* -------------------------------------------------------------------- spec
Next ==
    \/ \E q \in QueryTables : query_df(q)
    \/ vector_similarity
    \/ execute
    \/ sync_duckdb_backup
    \/ \E f \in BOOLEAN : sync_from_sql_dump(f)
    \/ maybe_sync_from_sql_dump
    \/ ensure_from_sql_dump
    \/ PrimarySucceeds
    \/ \E f \in PrimaryFailures : PrimaryFails(f[1], f[2])
    \/ EnsureFromSqlDump
    \/ MaybeSyncFromSqlDump
    \/ SyncCheck
    \/ SyncMtime
    \/ \E fail \in LoadFailures : SyncLoad(fail)
    \/ MirrorQuery
    \/ Return
    \/ Tick
    \/ \E m \in 1..MaxMtime, ts \in DumpTableSets : DumpWrite(m, ts)
    \/ DumpRemove
    \/ MirrorFileRemoved

Spec == Init /\ [][Next]_vars

\* ---------------------------------------------- queries and statements only
\* The manager serves query_df, vector_similarity and execute while nothing
\* outside it changes: no dump is written or removed, no time passes between
\* calls, no sync is asked for by hand.
NextClassify ==
    \/ \E q \in QueryTables : query_df(q)
    \/ vector_similarity
    \/ execute
    \/ PrimarySucceeds
    \/ \E f \in PrimaryFailures : PrimaryFails(f[1], f[2])
    \/ EnsureFromSqlDump
    \/ MaybeSyncFromSqlDump
    \/ SyncCheck
    \/ SyncMtime
    \/ \E fail \in LoadFailures : SyncLoad(fail)
    \/ MirrorQuery
    \/ Return

SpecClassify == Init /\ [][NextClassify]_vars

\* ============================================================== retry loop
\* _run_with_retries on its own: a manager without a mirror, any
\* retry_interval, and a primary whose every attempt returns or raises.
InitRetry ==
    /\ attempted = NoHistory
    /\ SyncOff
    /\ GlobalOff
    /\ AgentOff
    /\ \E arg \in 0..(MaxRetriesArg + 1) : max_retries = ClampRetries(arg)
    /\ retry_interval \in {0, DefaultRetryInterval}
    /\ attached = FALSE
    /\ available = FALSE
    /\ has_dump_path = FALSE
    /\ auto_sync = FALSE
    /\ sync_interval = 0
    /\ last_sync = 0
    /\ last_dump_mtime = 0
    /\ file = NoFile
    /\ dump = NoDump
    /\ now = 1
    /\ pc = "idle"
    /\ op = "none"
    /\ qtable = "none"
    /\ force = FALSE
    /\ attempts = 0
    /\ exc = NoErr
    /\ dump_mtime = 0
    /\ trace = <<>>
    /\ outcome = "none"
    /\ result = NoResult
    /\ retval = "none"
    /\ err = NoErr
    /\ pre = NoSnapshot
    /\ LoaderOff
    /\ SearchOff
    /\ StatementOff

\* One call of func(): it returns or raises.
Attempt ==
    \/ PrimarySucceeds
    \/ \E f \in PrimaryFailures : PrimaryFails(f[1], f[2])

NextRetry ==
    \/ \E q \in QueryTables : query_df(q)
    \/ vector_similarity
    \/ execute
    \/ Attempt
    \/ Return

\* Every attempt that was started ends: func() returns or raises.
SpecRetry == InitRetry /\ [][NextRetry]_vars /\ WF_vars(Attempt)

\* ================================================================ throttle
\* The router with a mirror attached and auto_sync on, serving queries one
\* after the other while time passes and the dump is rewritten: every
\* successful query ends in maybe_sync_from_sql_dump.
InitThrottle ==
    /\ attempted = NoAttempt
    /\ SyncOff
    /\ GlobalOff
    /\ AgentOff
    /\ LoaderOff
    /\ SearchOff
    /\ StatementOff
    /\ max_retries = 1
    /\ retry_interval = DefaultRetryInterval
    /\ attached = TRUE
    /\ available = TRUE
    /\ has_dump_path = TRUE
    /\ auto_sync = TRUE
    /\ sync_interval \in {0, MaxTime - 1}
    /\ last_sync = 0
    /\ last_dump_mtime = 0
    /\ file \in {NoFile, MirrorFile(DefaultDuckdbTables, 1)}
    /\ dump \in {NoDump, DumpFile(1, DefaultDuckdbTables)}
    /\ now = 1
    /\ pc = "maybe_sync"
    /\ op = "init"
    /\ qtable = "none"
    /\ force = FALSE
    /\ attempts = 0
    /\ exc = NoErr
    /\ dump_mtime = 0
    /\ trace = <<>>
    /\ outcome = "none"
    /\ result = NoResult
    /\ retval = "none"
    /\ err = NoErr
    /\ pre = [file |-> file, last_sync |-> 0, last_dump_mtime |-> 0]

NextThrottle ==
    \/ \E q \in QueryTables : query_df(q)
    \/ vector_similarity
    \/ maybe_sync_from_sql_dump
    \/ PrimarySucceeds
    \/ MaybeSyncFromSqlDump
    \/ SyncCheck
    \/ SyncMtime
    \/ \E fail \in LoadFailures : SyncLoad(fail)
    \/ Return
    \/ Tick
    \/ \E m \in 1..MaxMtime : DumpWrite(m, DefaultDuckdbTables)
    \/ DumpRemove

SpecThrottle == InitThrottle /\ [][NextThrottle]_vars

\* ======================================================== concurrent syncs
\* Two threads call sync_from_sql_dump on one DuckDBMirror, which has no
\* lock: the steps of the two calls interleave, and the dump may be
\* replaced or removed between any two steps.
Threads == {1, 2}

IdleThread == [pc |-> "idle", force |-> FALSE, dump_mtime |-> 0, tmp |-> NoFile, ret |-> "none"]

InitSync ==
    /\ attempted = NoHistory
    /\ GlobalOff
    /\ AgentOff
    /\ LoaderOff
    /\ SearchOff
    /\ StatementOff
    /\ max_retries = 1
    /\ retry_interval = DefaultRetryInterval
    /\ attached = TRUE
    /\ available = TRUE
    /\ has_dump_path = TRUE
    /\ auto_sync = FALSE
    /\ sync_interval = 0
    /\ last_sync = 0
    /\ last_dump_mtime = 0
    /\ file \in {NoFile} \cup {MirrorFile(DefaultDuckdbTables, m) : m \in 1..MaxMtime}
    /\ dump \in {NoDump} \cup {DumpFile(m, DefaultDuckdbTables) : m \in 1..MaxMtime}
    /\ now = 1
    /\ pc = "off"
    /\ op = "none"
    /\ qtable = "none"
    /\ force = FALSE
    /\ attempts = 0
    /\ exc = NoErr
    /\ dump_mtime = 0
    /\ trace = <<>>
    /\ outcome = "none"
    /\ result = NoResult
    /\ retval = "none"
    /\ err = NoErr
    /\ pre = NoSnapshot
    /\ threads = [t \in Threads |-> IdleThread]
    /\ raced = FALSE

\* A sync is in progress in thread t.
Syncing(t) == threads[t].pc \notin {"idle", "done"}

\* Thread t goes on as r; everything outside the mirror's own state and the
\* dump stays as it is.
ThreadStep(t, r) ==
    /\ threads' = [threads EXCEPT ![t] = r]
    /\ UNCHANGED <<cfgvars, now, callvars, histvars, loadvars, searchvars, textvars, globalvars, agentvars>>

\* Thread t calls sync_from_sql_dump(force=f).
SyncStart(t, f) ==
    /\ threads[t].pc = "idle"
    /\ ThreadStep(t, [IdleThread EXCEPT !.pc = "check", !.force = f])
    /\ raced' = (raced \/ \E u \in Threads \ {t} : Syncing(u))
    /\ UNCHANGED <<mirrorvars, dump>>

\* Lines 397-412: the availability, path and existence tests.
ThreadCheck(t) ==
    /\ threads[t].pc = "check"
    /\ IF ~available \/ ~has_dump_path \/ ~dump.exists
       THEN ThreadStep(t, [threads[t] EXCEPT !.pc = "done", !.ret = "false"])
       ELSE ThreadStep(t, [threads[t] EXCEPT !.pc = "mtime"])
    /\ UNCHANGED <<mirrorvars, dump, raced>>

\* Lines 413-420: getmtime, then the skip test on the shared bookkeeping.
ThreadMtime(t) ==
    /\ threads[t].pc = "mtime"
    /\ IF ~dump.exists
       THEN ThreadStep(t, [threads[t] EXCEPT !.pc = "done", !.ret = "raised"])
       ELSE IF SkipRebuild(threads[t].force, dump.mtime)
            THEN ThreadStep(t, [threads[t] EXCEPT !.pc = "done", !.dump_mtime = dump.mtime,
                                                  !.ret = BoolStr(IsReady)])
            ELSE ThreadStep(t, [threads[t] EXCEPT !.pc = "load", !.dump_mtime = dump.mtime])
    /\ UNCHANGED <<mirrorvars, dump, raced>>

\* _load_sql_dump up to conn.close(): the thread's own temporary store is
\* built from the dump as it is when it is opened.
ThreadLoad(t, fail) ==
    /\ threads[t].pc = "load"
    /\ IF LoadRaises(fail)
       THEN /\ ThreadStep(t, [threads[t] EXCEPT !.pc = "done", !.ret = "false"])
            /\ UNCHANGED raced
       ELSE /\ ThreadStep(t, [threads[t] EXCEPT !.pc = "replace",
                                                !.tmp = MirrorFile(dump.tables, dump.mtime)])
            /\ raced' = (raced \/ dump.mtime < threads[t].dump_mtime)
    /\ UNCHANGED <<mirrorvars, dump>>

\* os.replace(tmp_path, self.path), and the finally clause when it raises.
ThreadReplace(t, fail) ==
    /\ threads[t].pc = "replace"
    /\ IF fail
       THEN /\ ThreadStep(t, [threads[t] EXCEPT !.pc = "done", !.tmp = NoFile, !.ret = "false"])
            /\ UNCHANGED file
       ELSE /\ ThreadStep(t, [threads[t] EXCEPT !.pc = "record", !.tmp = NoFile])
            /\ file' = threads[t].tmp
    /\ UNCHANGED <<last_sync, last_dump_mtime, dump, raced>>

\* Variant: the bookkeeping records the modification time the dump has now.
ThreadRecordCurrentMtime(t) ==
    /\ threads[t].pc = "record"
    /\ ThreadStep(t, [threads[t] EXCEPT !.pc = "done", !.ret = "true"])
    /\ last_sync' = now
    /\ last_dump_mtime' = IF dump.exists THEN dump.mtime ELSE threads[t].dump_mtime
    /\ UNCHANGED <<file, dump, raced>>

\* Lines 426-431: the bookkeeping after _load_sql_dump returned.
ThreadRecord(t) ==
    /\ threads[t].pc = "record"
    /\ ThreadStep(t, [threads[t] EXCEPT !.pc = "done", !.ret = "true"])
    /\ last_sync' = now
    /\ last_dump_mtime' = threads[t].dump_mtime
    /\ UNCHANGED <<file, dump, raced>>

\* The caller of thread t has its answer.
ThreadReturn(t) ==
    /\ threads[t].pc = "done"
    /\ ThreadStep(t, IdleThread)
    /\ UNCHANGED <<mirrorvars, dump, raced>>

\* The dump is written, replaced (possibly by an older file) or removed.
DumpChanges(d) ==
    /\ dump' = d
    /\ dump' # dump
    /\ UNCHANGED <<cfgvars, mirrorvars, now, callvars, histvars, detailvars>>

NextSync ==
    \/ \E t \in Threads, f \in BOOLEAN : SyncStart(t, f)
    \/ \E t \in Threads : ThreadCheck(t)
    \/ \E t \in Threads : ThreadMtime(t)
    \/ \E t \in Threads, fail \in {"none", "mkstemp", "open_dump"} : ThreadLoad(t, fail)
    \/ \E t \in Threads, fail \in BOOLEAN : ThreadReplace(t, fail)
    \/ \E t \in Threads : ThreadRecord(t)
    \/ \E t \in Threads : ThreadReturn(t)
    \/ \E m \in 1..MaxMtime : DumpChanges(DumpFile(m, DefaultDuckdbTables))
    \/ DumpChanges(NoDump)

SpecSync == InitSync /\ [][NextSync]_vars

\* ============================================================= dump loader
\* A finer model of one rebuild: _load_sql_dump drives the generator
\* _iterate_dump_entries line by line and executes every entry it yields
\* into a temporary store, which replaces the live file as the last step.

RouterOff ==
    /\ attempted = NoHistory
    /\ max_retries = 1
    /\ retry_interval = DefaultRetryInterval
    /\ attached = FALSE
    /\ available = TRUE
    /\ has_dump_path = TRUE
    /\ auto_sync = FALSE
    /\ sync_interval = 0
    /\ last_sync = 0
    /\ last_dump_mtime = 0
    /\ file = NoFile
    /\ dump = NoDump
    /\ now = 1
    /\ pc = "off"
    /\ op = "none"
    /\ qtable = "none"
    /\ force = FALSE
    /\ attempts = 0
    /\ exc = NoErr
    /\ dump_mtime = 0
    /\ trace = <<>>
    /\ outcome = "none"
    /\ result = NoResult
    /\ retval = "none"
    /\ err = NoErr
    /\ pre = NoSnapshot

InitLoad ==
    /\ SyncOff
    /\ GlobalOff
    /\ AgentOff
    /\ RouterOff
    /\ SearchOff
    /\ StatementOff
    /\ spans = <<>>
    /\ built = NoDb
    /\ dump_items \in SeqsUpTo(DumpItems, MaxEntries)
    /\ dump_lines = DumpLines(dump_items)
    /\ live \in {NoDb, OldDb}
    /\ pre_live = live
    /\ tmpdb = NoDb
    /\ first_live = Unset
    /\ lpc = "idle"
    /\ li = 0
    /\ statement_lines = <<>>
    /\ copy_info = NoCopy
    /\ entry = NoEntry
    /\ emitted = <<>>
    /\ spools = {}
    /\ rebuilds = 0
    /\ ok = FALSE
    /\ skipped = 0
    /\ faulted = FALSE
    /\ closed = FALSE

\* The generator's finally clause (lines 221-233), run when the generator
\* ends or is closed: the spool file of the block in hand is removed.
GeneratorCleanup(files) == files \ {copy_info.temp_path}

\* Variant: the temporary store is left behind when the rebuild fails.
LoadAbortsLeavesStore(files, io) ==
    /\ lpc' = "returned"
    /\ ok' = FALSE
    /\ faulted' = io
    /\ li' = 0
    /\ statement_lines' = <<>>
    /\ copy_info' = NoCopy
    /\ entry' = NoEntry
    /\ emitted' = <<>>
    /\ spools' = files
    /\ UNCHANGED <<tmpdb, live, first_live, skipped, closed, built>>

\* An exception leaves _load_sql_dump: the generator is closed, the
\* connection is closed, the temporary store is removed, and
\* sync_from_sql_dump returns False. files are the spool files left; io
\* says whether it was an I/O operation that raised.
LoadAborts(files, io) ==
    /\ lpc' = "returned"
    /\ ok' = FALSE
    /\ faulted' = io
    /\ tmpdb' = NoDb
    /\ li' = 0
    /\ statement_lines' = <<>>
    /\ copy_info' = NoCopy
    /\ entry' = NoEntry
    /\ emitted' = <<>>
    /\ spools' = files
    /\ UNCHANGED <<live, first_live, skipped, closed, built>>

StartFaults == {"none", "mkstemp", "open_dump"}

\* Variant: the rebuild writes into a copy of the live store.
StoreFromLive == IF live.exists THEN live ELSE EmptyDb

\* duckdb.connect(tmp_path) on a path that mkstemp made and os.remove freed:
\* a new, empty store.
FreshStore == EmptyDb

\* _load_sql_dump up to the first line of the dump: mkstemp, duckdb.connect
\* on the temporary path, the dump opened by the generator.
LoadStart(fault) ==
    /\ lpc \in {"idle", "returned"}
    /\ rebuilds < MaxRebuilds
    /\ rebuilds' = rebuilds + 1
    /\ pre_live' = live
    /\ skipped' = 0
    /\ closed' = FALSE
    /\ statement_lines' = <<>>
    /\ copy_info' = NoCopy
    /\ entry' = NoEntry
    /\ emitted' = <<>>
    /\ ok' = FALSE
    /\ built' = NoDb
    /\ IF fault = "none"
       THEN lpc' = "read" /\ li' = 1 /\ tmpdb' = FreshStore /\ faulted' = FALSE
       ELSE lpc' = "returned" /\ li' = 0 /\ tmpdb' = NoDb /\ faulted' = TRUE
    /\ UNCHANGED <<dump_items, live, first_live, spools, routervars, appvars, searchvars, textvars>>

ParserFaults == {"none", "io", "spool_create"}

\* The generator reads the next line. "io": reading the dump or writing the
\* spool file raises; "spool_create": NamedTemporaryFile raises OSError at a
\* block header, and the rows are kept in memory instead.
ReadLine(fault) ==
    /\ lpc = "read"
    /\ li <= Len(dump_lines)
    /\ LET r == ParseLine(statement_lines, copy_info, dump_lines[li], li,
                          fault # "spool_create")
       IN /\ fault = "spool_create" => (r.ci.active /\ ~copy_info.active)
          /\ IF fault = "io"
             THEN LoadAborts(GeneratorCleanup(spools), TRUE)
             ELSE /\ statement_lines' = r.sl
                  /\ copy_info' = r.ci
                  /\ spools' = IF r.ci.temp_path # NoPath
                               THEN spools \cup {r.ci.temp_path}
                               ELSE spools
                  /\ li' = li + 1
                  /\ entry' = r.out
                  /\ IF r.out = NoEntry
                     THEN lpc' = "read" /\ UNCHANGED emitted
                     ELSE lpc' = "exec" /\ emitted' = Append(emitted, r.out)
                  /\ UNCHANGED <<tmpdb, live, first_live, ok, skipped, faulted, closed,
                                 built>>
    /\ UNCHANGED <<dump_items, pre_live, rebuilds, routervars, appvars, searchvars, textvars>>

\* Variant: every statement is executed on the live file as well.
ExecSqlInPlace ==
    /\ lpc = "exec"
    /\ entry.kind = "sql"
    /\ tmpdb' = ExecuteSqlStatement(tmpdb, entry.statement)
    /\ live' = tmpdb'
    /\ entry' = NoEntry
    /\ lpc' = "read"
    /\ UNCHANGED <<dump_items, li, statement_lines, copy_info, pre_live, spools,
                   emitted, rebuilds, first_live, ok, skipped, faulted, closed, built,
                   routervars, appvars, searchvars, textvars>>

\* Variant: a statement the store rejects aborts the rebuild.
ExecSqlStrict ==
    /\ lpc = "exec"
    /\ entry.kind = "sql"
    /\ IF ExecuteSqlStatement(tmpdb, entry.statement) # tmpdb
       THEN /\ tmpdb' = ExecuteSqlStatement(tmpdb, entry.statement)
            /\ entry' = NoEntry
            /\ lpc' = "read"
            /\ UNCHANGED <<li, statement_lines, copy_info, live, spools, emitted,
                           first_live, ok, skipped, faulted, closed, built>>
       ELSE LoadAborts(GeneratorCleanup(spools), FALSE)
    /\ UNCHANGED <<dump_items, pre_live, rebuilds, routervars, appvars, searchvars, textvars>>

\* _load_sql_dump executes a statement the generator yielded.
ExecSql ==
    /\ lpc = "exec"
    /\ entry.kind = "sql"
    /\ tmpdb' = ExecuteSqlStatement(tmpdb, entry.statement)
    /\ entry' = NoEntry
    /\ lpc' = "read"
    /\ UNCHANGED <<dump_items, li, statement_lines, copy_info, live, pre_live, spools,
                   emitted, rebuilds, first_live, ok, skipped, faulted, closed, built,
                   routervars, appvars, searchvars, textvars>>

CopyFaults == {"none", "columns", "spool_create", "spool_write"}

\* Variant: a block whose INSERT fails aborts the rebuild.
ExecCopyStrict(fault) ==
    /\ lpc = "exec"
    /\ entry.kind = "copy"
    /\ fault = "columns" => ~entry.cols
    /\ fault \in {"spool_create", "spool_write"} => copy_info.temp_path = NoPath
    /\ IF fault = "none" /\ CopyLoads(tmpdb, entry)
       THEN /\ tmpdb' = ExecuteCopy(tmpdb, entry)
            /\ spools' = spools \ {copy_info.temp_path}
            /\ copy_info' = NoCopy
            /\ entry' = NoEntry
            /\ lpc' = "read"
            /\ UNCHANGED <<li, statement_lines, live, first_live, emitted, ok,
                           skipped, faulted, closed, built>>
       ELSE LoadAborts(GeneratorCleanup(spools), fault # "none")
    /\ UNCHANGED <<dump_items, pre_live, rebuilds, routervars, appvars, searchvars, textvars>>

\* _execute_copy on a block the generator yielded. "columns":
\* _get_table_columns raises (only called for a header without a column
\* list); "spool_create" and "spool_write": the rows were kept in memory and
\* creating or writing the spool file of lines 339-346 raises. These leave
\* _execute_copy before its try statement. A failing INSERT is swallowed; the
\* spool file is removed in the finally clause, and the generator, resumed,
\* forgets the block.
ExecCopy(fault) ==
    /\ lpc = "exec"
    /\ entry.kind = "copy"
    /\ fault = "columns" => ~entry.cols
    /\ fault \in {"spool_create", "spool_write"} => copy_info.temp_path = NoPath
    /\ IF fault = "none"
       THEN /\ tmpdb' = ExecuteCopy(tmpdb, entry)
            /\ skipped' = IF CopyLoads(tmpdb, entry) THEN skipped ELSE skipped + 1
            /\ spools' = spools \ {copy_info.temp_path}
            /\ copy_info' = NoCopy
            /\ entry' = NoEntry
            /\ lpc' = "read"
            /\ UNCHANGED <<li, statement_lines, live, first_live, emitted, ok,
                           faulted, closed, built>>
       ELSE LoadAborts(GeneratorCleanup(
                IF fault = "spool_write"
                THEN spools \cup {SpoolPath("copy", li)}
                ELSE spools), TRUE)
    /\ UNCHANGED <<dump_items, pre_live, rebuilds, routervars, appvars, searchvars, textvars>>

EndFaults == {"none", "checkpoint"}

\* The dump is exhausted: the generator ends (its finally clause removes
\* the spool file of a block left without terminator), then CHECKPOINT and
\* conn.close().
EndOfDump(fault) ==
    /\ lpc = "read"
    /\ li > Len(dump_lines)
    /\ IF fault = "none"
       THEN /\ spools' = GeneratorCleanup(spools)
            /\ copy_info' = NoCopy
            /\ statement_lines' = <<>>
            /\ closed' = TRUE
            /\ built' = tmpdb
            /\ lpc' = "replace"
            /\ UNCHANGED <<li, entry, tmpdb, live, first_live, emitted, ok, skipped, faulted>>
       ELSE LoadAborts(GeneratorCleanup(spools), TRUE)
    /\ UNCHANGED <<dump_items, pre_live, rebuilds, routervars, appvars, searchvars, textvars>>

ReplaceFaults == {"none", "replace"}

\* os.replace(tmp_path, self.path) moves the temporary store onto the live
\* path (the os.remove of the finally clause then finds nothing and its
\* OSError is swallowed), and sync_from_sql_dump returns True.
Replace(fault) ==
    /\ lpc = "replace"
    /\ IF fault = "none"
       THEN /\ live' = tmpdb
            /\ tmpdb' = NoDb
            /\ first_live' = IF first_live = Unset THEN tmpdb ELSE first_live
            /\ ok' = TRUE
            /\ lpc' = "returned"
            /\ li' = 0
            /\ emitted' = <<>>
            /\ UNCHANGED <<statement_lines, copy_info, entry, spools, skipped,
                           faulted, closed, built>>
       ELSE LoadAborts(spools, TRUE)
    /\ UNCHANGED <<dump_items, pre_live, rebuilds, routervars, appvars, searchvars, textvars>>

NextLoad ==
    \/ \E fault \in StartFaults : LoadStart(fault)
    \/ \E fault \in ParserFaults : ReadLine(fault)
    \/ ExecSql
    \/ \E fault \in CopyFaults : ExecCopy(fault)
    \/ \E fault \in EndFaults : EndOfDump(fault)
    \/ \E fault \in ReplaceFaults : Replace(fault)

SpecLoad == InitLoad /\ [][NextLoad]_vars

\* ============================================================= dump parser
\* _iterate_dump_entries alone, on dumps made of any lines: its consumer
\* takes every entry it yields and nothing fails.

InitParse ==
    /\ SyncOff
    /\ GlobalOff
    /\ AgentOff
    /\ RouterOff
    /\ SearchOff
    /\ StatementOff
    /\ dump_lines \in SeqsUpTo(ParseLines, MaxLines)
    /\ spans = <<>>
    /\ lpc = "parse"
    /\ li = 1
    /\ statement_lines = <<>>
    /\ copy_info = NoCopy
    /\ entry = NoEntry
    /\ emitted = <<>>
    /\ dump_items = <<>>
    /\ live = NoDb
    /\ pre_live = NoDb
    /\ tmpdb = NoDb
    /\ built = NoDb
    /\ first_live = Unset
    /\ spools = {}
    /\ rebuilds = 0
    /\ ok = FALSE
    /\ skipped = 0
    /\ faulted = FALSE
    /\ closed = FALSE

\* The lines an entry was made of: a statement's from the first line
\* appended to statement_lines, a block's from its header, to the line at
\* which the entry is yielded.
Span(out, sl, ci, i) ==
    [from |-> IF out.kind = "copy" THEN ci.temp_path.at ELSE i - Len(sl), at |-> i]

\* The generator reads one line and, when it yields, is resumed at once.
IterateLine ==
    /\ lpc = "parse"
    /\ li <= Len(dump_lines)
    /\ LET r == ParseLine(statement_lines, copy_info, dump_lines[li], li, TRUE)
       IN /\ statement_lines' = r.sl
          /\ copy_info' = IF r.out.kind = "copy" THEN NoCopy ELSE r.ci
          /\ IF r.out = NoEntry
             THEN UNCHANGED <<emitted, spans>>
             ELSE /\ emitted' = Append(emitted, r.out)
                  /\ spans' = Append(spans, Span(r.out, statement_lines, copy_info, li))
    /\ li' = li + 1
    /\ UNCHANGED <<dump_lines, lpc, entry, dump_items, live, pre_live, tmpdb, built,
                   first_live, spools, rebuilds, ok, skipped, faulted, closed,
                   routervars, appvars, searchvars, sql_text, executed, spc>>

\* The dump is exhausted: the generator ends.
IterateEnd ==
    /\ lpc = "parse"
    /\ li > Len(dump_lines)
    /\ lpc' = "parsed"
    /\ UNCHANGED <<dump_lines, spans, li, statement_lines, copy_info, entry, emitted,
                   dump_items, live, pre_live, tmpdb, built, first_live, spools,
                   rebuilds, ok, skipped, faulted, closed, routervars, appvars, searchvars,
                   sql_text, executed, spc>>

NextParse ==
    \/ IterateLine
    \/ IterateEnd

SpecParse == InitParse /\ [][NextParse]_vars

\* ======================================================= statement filter
\* _execute_sql_statement on one statement of a dump.

InitStmt ==
    /\ SyncOff
    /\ GlobalOff
    /\ AgentOff
    /\ RouterOff
    /\ LoaderOff
    /\ SearchOff
    /\ sql_text \in StatementTexts
    /\ executed = NoText
    /\ spc = "call"

ExecuteSqlStatementText ==
    /\ spc = "call"
    /\ executed' = ExecutedText(sql_text)
    /\ spc' = "done"
    /\ UNCHANGED <<sql_text, routervars, appvars, loadvars, searchvars, dump_lines, spans>>

NextStmt == ExecuteSqlStatementText

SpecStmt == InitStmt /\ [][NextStmt]_vars

\* =========================================================== vector search
\* DuckDBMirror.vector_similarity: the rows of vip_products in stored order,
\* each with its embedding column (TEXT in the mirror), scored in Python.

NullValue == [form |-> "null", vec |-> <<>>]
TextValue == [form |-> "text", vec |-> <<>>]
JsonList(v) == [form |-> "json_list", vec |-> v]

Coords == 0..MaxCoord
\* Two-dimensional vectors; the second coordinate is 0 or the largest.
Vectors2 == {<<x, y>> : x \in Coords, y \in {0, MaxCoord}}

EmbeddingValues ==
    {NullValue, TextValue, JsonList(<<>>), JsonList(<<0>>)}
        \cup {JsonList(v) : v \in Vectors2}

QueryVectors == Vectors2 \cup {<<>>}

InitVec ==
    /\ SyncOff
    /\ GlobalOff
    /\ AgentOff
    /\ RouterOff
    /\ LoaderOff
    /\ StatementOff
    /\ stored \in SeqsUpTo(EmbeddingValues, MaxRows)
    /\ query_vector \in QueryVectors
    /\ limit \in 0..MaxLimit
    /\ vpc = "call"
    /\ voutcome = "none"
    /\ vresult = <<>>

\* WHERE embedding IS NOT NULL: the rows the SELECT returns, by position.
Products == {i \in 1..Len(stored) : stored[i] # NullValue}

\* _parse_embedding: a JSON list of numbers, or None.
ParseEmbedding(value) ==
    IF value.form = "json_list"
    THEN [parsed |-> TRUE, vec |-> value.vec]
    ELSE [parsed |-> FALSE, vec |-> <<>>]

\* Variant: the shape of the embedding is not compared with the target's.
FiniteDistanceAnyShape(value, target) ==
    /\ ParseEmbedding(value).parsed
    /\ ParseEmbedding(value).vec # <<>>

\* _distance returns a finite number: the embedding parses, is not empty
\* and has the target's shape; otherwise it returns inf and the row is
\* dropped.
FiniteDistance(value, target) ==
    /\ ParseEmbedding(value).parsed
    /\ ParseEmbedding(value).vec # <<>>
    /\ Len(ParseEmbedding(value).vec) = Len(target)

Min(a, b) == IF a <= b THEN a ELSE b

RECURSIVE SumSq(_, _, _)
SumSq(u, v, k) ==
    IF k = 0 THEN 0
    ELSE (u[k] - v[k]) * (u[k] - v[k]) + SumSq(u, v, k - 1)

\* np.linalg.norm(emb_array - target_array), squared: the order of the
\* distances is the order of their squares.
DistanceSq(value, target) ==
    SumSq(ParseEmbedding(value).vec, target,
          Min(Len(ParseEmbedding(value).vec), Len(target)))

\* The first row of cands, in stored order, with the smallest distance.
FirstSmallest(cands, target) ==
    CHOOSE i \in cands :
        \A j \in cands :
            \/ DistanceSq(stored[i], target) < DistanceSq(stored[j], target)
            \/ /\ DistanceSq(stored[i], target) = DistanceSq(stored[j], target)
               /\ i <= j

\* products.nsmallest(n, "distance"): the n smallest in ascending order, the
\* first occurrences winning the ties (keep="first").
RECURSIVE NSmallest(_, _, _)
NSmallest(cands, n, target) ==
    IF n = 0 \/ cands = {} THEN <<>>
    ELSE LET best == FirstSmallest(cands, target)
         IN <<best>> \o NSmallest(cands \ {best}, n - 1, target)

\* The rows left after the rows with an infinite distance were dropped.
Scored(target) == {i \in Products : FiniteDistance(stored[i], target)}

\* Variant: the limit is passed to nsmallest as it is.
MirrorVectorSimilarityUnclamped ==
    /\ vpc = "call"
    /\ vpc' = "done"
    /\ IF Products = {}
       THEN voutcome' = "returned" /\ vresult' = <<>>
       ELSE IF query_vector = <<>>
            THEN voutcome' = "raised" /\ vresult' = <<>>
            ELSE /\ voutcome' = "returned"
                 /\ vresult' = NSmallest(Scored(query_vector), limit, query_vector)
    /\ UNCHANGED <<stored, query_vector, limit, routervars, appvars, loadvars, textvars>>

\* DuckDBMirror.vector_similarity, from the rows read to the rows returned.
MirrorVectorSimilarity ==
    /\ vpc = "call"
    /\ vpc' = "done"
    /\ IF Products = {}
       THEN voutcome' = "returned" /\ vresult' = <<>>
       ELSE IF query_vector = <<>>
            THEN voutcome' = "raised" /\ vresult' = <<>>
            ELSE /\ voutcome' = "returned"
                 /\ vresult' = NSmallest(Scored(query_vector), Max(limit, 1), query_vector)
    /\ UNCHANGED <<stored, query_vector, limit, routervars, appvars, loadvars, textvars>>

NextVec == MirrorVectorSimilarity

SpecVec == InitVec /\ [][NextVec]_vars

\* ========================================================== global handle
\* get_db and the module global _GLOBAL_DB. A call passes no url ("none"),
\* a url, or text create_engine cannot parse ("bad"), on which the
\* constructor raises; a manager is known by the call that constructed it.
Urls == {"none", "pg_a", "pg_b", "bad"}

\* DBManager.__init__: self.url = url or _build_sqlalchemy_url().
DBManagerFor(url, id) == [id |-> id, url |-> IF url = "none" THEN "env" ELSE url]

InitDb ==
    /\ RouterOff
    /\ LoaderOff
    /\ SearchOff
    /\ StatementOff
    /\ SyncOff
    /\ AgentOff
    /\ global_db = NoDbManager
    /\ db_log = <<>>

\* Variant: a url that differs from the manager's makes a new manager.
GetDbPerUrl(url) ==
    /\ Len(db_log) < MaxCalls
    /\ IF url = "bad"
       THEN /\ db_log' = Append(db_log, [url |-> url, outcome |-> "raised", instance |-> NoDbManager])
            /\ UNCHANGED global_db
       ELSE IF global_db = NoDbManager \/ (url # "none" /\ url # global_db.url)
            THEN /\ global_db' = DBManagerFor(url, Len(db_log) + 1)
                 /\ db_log' = Append(db_log, [url |-> url, outcome |-> "returned", instance |-> global_db'])
            ELSE /\ db_log' = Append(db_log, [url |-> url, outcome |-> "returned", instance |-> global_db])
                 /\ UNCHANGED global_db
    /\ UNCHANGED <<routervars, loadvars, searchvars, textvars, syncvars, agentvars>>

\* get_db(url).
GetDb(url) ==
    /\ Len(db_log) < MaxCalls
    /\ IF global_db = NoDbManager
       THEN IF url = "bad"
            THEN /\ db_log' = Append(db_log, [url |-> url, outcome |-> "raised", instance |-> NoDbManager])
                 /\ UNCHANGED global_db
            ELSE /\ global_db' = DBManagerFor(url, Len(db_log) + 1)
                 /\ db_log' = Append(db_log, [url |-> url, outcome |-> "returned", instance |-> global_db'])
       ELSE /\ db_log' = Append(db_log, [url |-> url, outcome |-> "returned", instance |-> global_db])
            /\ UNCHANGED global_db
    /\ UNCHANGED <<routervars, loadvars, searchvars, textvars, syncvars, agentvars>>

NextDb == \E url \in Urls : GetDb(url)

SpecDb == InitDb /\ [][NextDb]_vars

\* =========================================================== agent manager
\* ResponseEvaluator.threshold, 0.5; scores are counted in tenths.
EvaluatorThreshold == 5

\* ResponseEvaluator.evaluate: 0.0 for an empty response or one with a
\* failure phrase, 1.0 otherwise.
Evaluate(response) ==
    IF response = <<>> \/ response = NoneText THEN 0
    ELSE IF response[2] = "sorry" THEN 0 ELSE 10

\* First loop of handle_request: one record per specialist, scored.
ScoreRecords(req) ==
    [i \in 1..Len(AgentNames) |->
        LET b == req.agents[i] IN
        [name |-> AgentNames[i],
         kind |-> b.kind,
         score |-> IF b.score = -1 THEN 0 ELSE b.score,
         status |-> IF b.score = -1 THEN "error" ELSE "pending",
         response |-> NoneText,
         evaluation |-> -1,
         error |-> IF b.score = -1 THEN "Scoring failed" ELSE "none"]]

Without(recs, i) == SubSeq(recs, 1, i - 1) \o SubSeq(recs, i + 1, Len(recs))

\* agent_records.sort(key=score, reverse=True): stable, highest score first.
RECURSIVE SortByScore(_)
SortByScore(recs) ==
    IF recs = <<>> THEN <<>>
    ELSE LET i == CHOOSE k \in 1..Len(recs) :
                      /\ \A j \in 1..Len(recs) : recs[j].score <= recs[k].score
                      /\ \A j \in 1..(k - 1) : recs[j].score < recs[k].score
         IN <<recs[i]>> \o SortByScore(Without(recs, i))

\* Second loop: every record not in error answers and is evaluated; the
\* first response that scores higher than all before it is kept as best.
RECURSIVE Collect(_, _, _, _)
Collect(recs, k, best_response, best_eval) ==
    IF k > Len(recs) THEN [records |-> recs, best_response |-> best_response]
    ELSE LET r == recs[k] IN
         IF r.status = "error" THEN Collect(recs, k + 1, best_response, best_eval)
         ELSE IF r.kind = "raise"
         THEN Collect([recs EXCEPT ![k] = [r EXCEPT !.status = "error", !.error = "Execution failed"]],
                      k + 1, best_response, best_eval)
         ELSE LET response == Text(r.name, r.kind)
                  evaluation == Evaluate(response)
                  done == [r EXCEPT !.response = response,
                                    !.evaluation = evaluation,
                                    !.status = IF evaluation >= EvaluatorThreshold
                                               THEN "success" ELSE "low_confidence"]
              IN IF evaluation > best_eval
                 THEN Collect([recs EXCEPT ![k] = done], k + 1, response, evaluation)
                 ELSE Collect([recs EXCEPT ![k] = done], k + 1, best_response, best_eval)

\* The specialists' part of the context handed to the general agent.
Context(recs) ==
    [i \in 1..Len(recs) |->
        <<recs[i].name, recs[i].status,
          IF recs[i].response # NoneText /\ recs[i].response # <<>> THEN recs[i].response
          ELSE IF recs[i].error # "none" THEN <<recs[i].error>>
          ELSE <<"(no response)">> >>]

TraceEntry(r) ==
    [name |-> r.name, score |-> r.score, status |-> r.status, response |-> r.response,
     evaluation |-> r.evaluation, error |-> r.error]

\* Lines 230-281: the general agent answers or raises, and the final
\* response is chosen.
Synthesis(req, best_response) ==
    IF req.general = "raise"
    THEN [general |-> [kind |-> "dict", response |-> NoneText, evaluation |-> -1, error |-> "exc"],
          final_response |-> IF best_response # <<>> THEN best_response ELSE Apology,
          final_source |-> IF best_response # <<>> THEN "specialist" ELSE "fallback"]
    ELSE LET general_response == Text("General", req.general)
             general_score == Evaluate(general_response)
             low == general_score < EvaluatorThreshold /\ best_response # <<>>
         IN [general |-> [kind |-> "dict", response |-> general_response,
                          evaluation |-> general_score, error |-> "none"],
             final_response |-> IF low THEN best_response ELSE general_response,
             final_source |-> IF low THEN "specialist" ELSE "general"]

\* copy.deepcopy of the trace at src, into the objects at dst.
DeepCopy(h, src, dst) ==
    [h EXCEPT ![dst] = [h[src] EXCEPT !.chat_history = HistoryOf(dst), !.general = GeneralOf(dst)],
              ![HistoryOf(dst)] = h[h[src].chat_history],
              ![GeneralOf(dst)] = h[h[src].general]]

\* The local objects of a call are garbage once it has returned.
Dropped(h) ==
    [h EXCEPT !["local"] = NoObject, !["local.history"] = NoObject, !["local.general"] = NoObject]

\* trace_data as handle_request leaves it at line 281, on the heap h.
TraceData(h, req) ==
    LET collected == Collect(SortByScore(ScoreRecords(req)), 1, <<>>, -1)
        syn == Synthesis(req, collected.best_response)
    IN [h EXCEPT !["local.history"] = ListObject(h["caller.history"].items),
                 !["local.general"] = syn.general,
                 !["local"] = [kind |-> "trace",
                               user_request |-> req.user_request,
                               chat_history |-> "local.history",
                               specialists |-> [i \in 1..Len(collected.records) |->
                                                   TraceEntry(collected.records[i])],
                               context |-> Context(collected.records),
                               general |-> "local.general",
                               final_response |-> syn.final_response,
                               final_response_source |-> syn.final_source,
                               fallback_used |-> (syn.final_source # "general")]]

\* AgentManager.handle_request(user_request, chat_history, return_trace),
\* chat_history being the caller's list.
HandleRequest(req) ==
    /\ asked' = req
    /\ IF heap["caller.history"].items = <<>>
       THEN /\ reply' = [op |-> "handle_request", outcome |-> "raised",
                         response |-> <<"ValueError">>, trace |-> NoTrace]
            /\ UNCHANGED <<heap, last_trace, handed, completed>>
       ELSE LET h1 == TraceData(heap, req)
                h2 == DeepCopy(h1, "local", "stored")
                h3 == IF req.return_trace THEN DeepCopy(h2, "local", "handed") ELSE h2
            IN /\ heap' = Dropped(h3)
               /\ last_trace' = "stored"
               /\ handed' = IF req.return_trace THEN "handed" ELSE handed
               /\ completed' = DeepValue(h1, "local")
               /\ reply' = [op |-> "handle_request", outcome |-> "returned",
                            response |-> h1["local"].final_response,
                            trace |-> IF req.return_trace THEN DeepValue(h3, "handed") ELSE NoTrace]
    /\ UNCHANGED <<routervars, loadvars, searchvars, textvars, syncvars, globalvars>>

\* Variant: get_last_trace hands out self.last_trace itself.
GetLastTraceAliased ==
    /\ handed' = last_trace
    /\ reply' = [op |-> "get_last_trace", outcome |-> "returned", response |-> <<>>,
                 trace |-> DeepValue(heap, last_trace)]
    /\ UNCHANGED <<heap, last_trace, asked, completed>>
    /\ UNCHANGED <<routervars, loadvars, searchvars, textvars, syncvars, globalvars>>

\* AgentManager.get_last_trace.
GetLastTrace ==
    /\ IF last_trace = "none"
       THEN /\ handed' = "none"
            /\ reply' = [op |-> "get_last_trace", outcome |-> "returned", response |-> <<>>,
                         trace |-> NoTrace]
            /\ UNCHANGED heap
       ELSE /\ heap' = DeepCopy(heap, last_trace, "handed")
            /\ handed' = "handed"
            /\ reply' = [op |-> "get_last_trace", outcome |-> "returned", response |-> <<>>,
                         trace |-> DeepValue(heap', "handed")]
    /\ UNCHANGED <<last_trace, asked, completed>>
    /\ UNCHANGED <<routervars, loadvars, searchvars, textvars, syncvars, globalvars>>

\* The caller changes the trace it was handed: a key of the dict, a key of
\* the nested "general" dict, or the nested chat_history list.
MutateTrace(what) ==
    /\ handed # "none"
    /\ heap' = CASE what = "user_request" -> [heap EXCEPT ![handed].user_request = "mutated"]
                  [] what = "general" ->
                         [heap EXCEPT ![heap[handed].general].response = <<"mutated">>]
                  [] OTHER -> [heap EXCEPT ![heap[handed].chat_history].items = <<>>]
    /\ heap' # heap
    /\ UNCHANGED <<last_trace, handed, asked, reply, completed>>
    /\ UNCHANGED <<routervars, loadvars, searchvars, textvars, syncvars, globalvars>>

\* The caller changes its own chat_history list: a message more, or none.
MutateHistory(items) ==
    /\ heap' = [heap EXCEPT !["caller.history"].items = items]
    /\ heap' # heap
    /\ UNCHANGED <<last_trace, handed, asked, reply, completed>>
    /\ UNCHANGED <<routervars, loadvars, searchvars, textvars, syncvars, globalvars>>

\* ----- one request, with every behaviour of the agents
Requests ==
    {Request("q1", r, a, b, g) : r \in BOOLEAN, a \in Behaviours, b \in Behaviours, g \in Kinds}

InitAgent ==
    /\ RouterOff
    /\ LoaderOff
    /\ SearchOff
    /\ StatementOff
    /\ SyncOff
    /\ GlobalOff
    /\ heap \in {[EmptyHeap EXCEPT !["caller.history"] = ListObject(items)] :
                     items \in {<<>>, <<"m1">>}}
    /\ last_trace = "none"
    /\ handed = "none"
    /\ asked \in Requests
    /\ reply = NoReply
    /\ completed = NoTrace

NextAgent == reply = NoReply /\ HandleRequest(asked)

SpecAgent == InitAgent /\ [][NextAgent]_vars

\* ----- requests one after the other, traces read and changed in between
FewRequests ==
    {Request(u, r, Behaviour(1, "good"), Behaviour(0, "sorry"), g) :
         u \in {"q1", "q2"}, r \in BOOLEAN, g \in {"good", "raise"}}

Histories == {<<>>, <<"m1">>, <<"m1", "m2">>}

InitTrace ==
    /\ RouterOff
    /\ LoaderOff
    /\ SearchOff
    /\ StatementOff
    /\ SyncOff
    /\ GlobalOff
    /\ heap = [EmptyHeap EXCEPT !["caller.history"] = ListObject(<<>>)]
    /\ last_trace = "none"
    /\ handed = "none"
    /\ asked = NoRequest
    /\ reply = NoReply
    /\ completed = NoTrace

NextTrace ==
    \/ \E req \in FewRequests : HandleRequest(req)
    \/ GetLastTrace
    \/ \E what \in {"user_request", "general", "chat_history"} : MutateTrace(what)
    \/ \E items \in Histories : MutateHistory(items)

SpecTrace == InitTrace /\ [][NextTrace]_vars

\* ================================================================== claims
Has(ev) == \E i \in 1..Len(trace) : trace[i] = ev

Connects == Count(trace, "connect")
Queries == Count(trace, "read_sql")
TransientFailures == Count(trace, "ConnRefused")

RouterOps == {"query_df", "vector_similarity", "execute"}

\* is_ready() on the file f.
ReadyFile(f) == available /\ f.exists /\ DefaultDuckdbTables \subseteq f.tables

\* The primary failed transiently on every one of its max_retries attempts.
PrimaryExhausted ==
    /\ ~Has("ok")
    /\ ~Has("SyntaxErr")
    /\ ~Has("OtherRefused")
    /\ TransientFailures = max_retries

\* C1 (as claimed): when the first k < max_retries connection attempts of a
\* query_df call fail with a connection-refused error and attempt k+1
\* succeeds, query_df returns the primary's result after exactly k+1
\* connection attempts and exactly one execution of the query.
C1_RetryThenSuccess ==
    (/\ pc = "done"
     /\ op = "query_df"
     /\ Has("ok")
     /\ TransientFailures < max_retries)
    => /\ outcome = "returned"
       /\ result = PrimaryResult(qtable)
       /\ Connects = TransientFailures + 1
       /\ Queries = 1

\* C2: a non-transient primary error (a syntax error) is never followed by
\* another attempt or by any mirror activity: query_df, execute and
\* vector_similarity raise it at once, the mirror is neither rebuilt nor
\* queried, and when it is the first attempt that fails exactly one attempt
\* is made whatever max_retries is.
C2_NonTransientRaisedAtOnce ==
    Has("SyntaxErr") =>
        /\ pc = "done"
        /\ trace[Len(trace)] = "SyntaxErr"
        /\ outcome = "raised"
        /\ err = SyntaxErr
        /\ result = NoResult
        /\ Snapshot = pre
        /\ (TransientFailures = 0 => Connects = 1)

C2_Witness ==
    /\ pc = "done"
    /\ op = "query_df"
    /\ max_retries >= 2
    /\ attached
    /\ trace = <<"connect", "read_sql", "SyntaxErr">>

\* C3: max_retries is at least 1 whatever the constructor was given; each
\* call of query_df, execute or vector_similarity makes at least one and at
\* most max_retries primary attempts; when every attempt fails transiently
\* exactly max_retries attempts are made and the last error leaves
\* _run_with_retries.
C3_AttemptBounds ==
    /\ max_retries >= 1
    /\ Connects <= max_retries
    /\ (op \in RouterOps /\ pc # "primary") =>
           /\ Connects >= 1
           /\ (~Has("ok") /\ ~Has("SyntaxErr") /\ ~Has("OtherRefused")) =>
                  /\ Connects = max_retries
                  /\ exc = ConnRefused

C3_Witness ==
    /\ pc = "done"
    /\ op = "execute"
    /\ max_retries = 2
    /\ PrimaryExhausted
    /\ Connects = 2
    /\ err = ConnRefused

\* C4: when the primary fails transiently on all max_retries attempts of a
\* query_df call, a mirror is attached, the dump exists and defines every
\* mirrored table, no step of a rebuild hits an I/O fault and the query
\* reads a table of the dump, query_df returns the rows the mirror holds
\* for the query (those of the dump when the call rebuilt the mirror).
C4_FallbackReturnsMirrorRows ==
    (/\ pc = "done"
     /\ op = "query_df"
     /\ PrimaryExhausted
     /\ attached
     /\ dump.exists
     /\ DefaultDuckdbTables \subseteq dump.tables
     /\ qtable \in dump.tables
     /\ ~Has("fault"))
    => /\ outcome = "returned"
       /\ result = MirrorRows(file, qtable)
       /\ (Has("load") => file = MirrorFile(dump.tables, dump.mtime))

C4_Witness ==
    /\ pc = "done"
    /\ op = "query_df"
    /\ PrimaryExhausted
    /\ ~auto_sync
    /\ ~pre.file.exists
    /\ outcome = "returned"
    /\ result = MirrorRows(MirrorFile(dump.tables, dump.mtime), "app_inventory")

\* C5: when a transient error leaves _run_with_retries and either no mirror
\* is attached (none configured, or its dependency is missing) or
\* ensure_from_sql_dump returns false, query_df and vector_similarity raise
\* that primary error and return no result.
C5_NoUsableMirrorRaisesPrimaryError ==
    /\ attached => available
    /\ (/\ pc = "done"
        /\ op \in RouterQueryOps
        /\ exc = ConnRefused
        /\ (~attached \/ Has("ensure_false")))
       => /\ outcome = "raised"
          /\ err = ConnRefused
          /\ result = NoResult
          /\ ~Has("mirror_query")

C5_Witness ==
    /\ pc = "done"
    /\ op = "vector_similarity"
    /\ exc = ConnRefused
    /\ Has("ensure_false")
    /\ Has("fault")
    /\ err = ConnRefused

\* C6 (as claimed): after every successful primary operation, query_df,
\* vector_similarity and execute alike, maybe_sync_from_sql_dump is called
\* before the operation returns whenever a mirror is attached.
C6_SyncAfterEverySuccess ==
    (/\ pc = "done"
     /\ op \in RouterOps
     /\ Has("ok")
     /\ attached)
    => Has("maybe_sync")

\* C7: ensure_from_sql_dump called while the mirror is Ready returns true
\* without starting a rebuild and without reading the dump or its
\* modification time; the mirror file, _last_sync and _last_dump_mtime are
\* unchanged.
C7_EnsureWhenReadyIsNoOp ==
    (Has("ensure") /\ ReadyFile(pre.file)) =>
        /\ Has("ensure_true")
        /\ ~Has("sync")
        /\ ~Has("getmtime")
        /\ ~Has("load")
        /\ Snapshot = pre
        /\ (op = "ensure_from_sql_dump" => pc = "done" /\ retval = "true")

C7_Witness ==
    /\ pc = "done"
    /\ op = "ensure_from_sql_dump"
    /\ ReadyFile(pre.file)
    /\ retval = "true"
    /\ has_dump_path
    /\ dump.exists
    /\ dump.mtime > last_dump_mtime

\* C8 (as claimed): _last_dump_mtime never decreases, whatever sync
\* operation runs and however the dump's modification time changes.
C8_MtimeNeverDecreases == last_dump_mtime >= pre.last_dump_mtime

\* C8 (amended): _last_dump_mtime decreases only in a rebuild that was forced
\* or that found the secondary file missing, and is then the modification
\* time of the dump that rebuild read.
C8_MtimeDecreasesOnlyWhenForcedOrMissing ==
    last_dump_mtime < pre.last_dump_mtime =>
        /\ Has("replace")
        /\ (force \/ ~pre.file.exists)
        /\ last_dump_mtime = dump_mtime

C8_Witness ==
    /\ pc = "done"
    /\ last_dump_mtime < pre.last_dump_mtime
    /\ force
    /\ pre.file.exists

C10_FailedRebuildChangesNothing ==
    (Has("fault") \/ Has("no_dump")) =>
        /\ Has("sync_false")
        /\ ~Has("replace")
        /\ Snapshot = pre
        /\ (op \in {"sync_from_sql_dump", "sync_duckdb_backup"} =>
                pc = "done" /\ outcome = "returned" /\ retval = "false")

C10_Witness ==
    /\ pc = "done"
    /\ op = "sync_from_sql_dump"
    /\ Has("fault")
    /\ pre.file.exists
    /\ retval = "false"
    /\ dump.exists
    /\ dump.mtime > pre.last_dump_mtime


\* The mirror is Unconfigured: the duckdb dependency is absent or no dump
\* path is configured.
Unconfigured == ~available \/ ~has_dump_path

MirrorSyncOps ==
    {"init", "sync_from_sql_dump", "sync_duckdb_backup",
     "maybe_sync_from_sql_dump", "ensure_from_sql_dump"}

\* sync_from_sql_dump was entered by the call in progress.
SyncAttempted == pc = "sync_check" \/ Has("sync")

\* C12 (as claimed): while the mirror is Unconfigured, is_ready() is false in
\* every state of the secondary file, and sync_from_sql_dump and
\* ensure_from_sql_dump return false without touching the secondary file or
\* the mirror state.
C12_UnconfiguredIsInert ==
    Unconfigured =>
        /\ ~IsReady
        /\ (pc = "done" /\ op \in {"sync_from_sql_dump", "sync_duckdb_backup",
                                   "ensure_from_sql_dump"})
           => retval = "false" /\ Snapshot = pre

\* C12 (amended): with the dependency absent is_ready() is false in every
\* state of the secondary file; while Unconfigured no call reads the dump or
\* rebuilds, the secondary file and the mirror state stay as they were, and
\* sync_from_sql_dump returns false; ensure_from_sql_dump returns what
\* is_ready() says, which is true when the dependency is present and the
\* secondary file holds every mirrored table although no dump path is
\* configured.
C12_UnconfiguredNeverRebuilds ==
    /\ ~available => ~IsReady
    /\ Unconfigured =>
        /\ ~Has("getmtime")
        /\ ~Has("load")
        /\ pc # "idle" => Snapshot = pre
        /\ (pc = "done" /\ op \in {"sync_from_sql_dump", "sync_duckdb_backup"})
           => retval = "false"
        /\ (pc = "done" /\ op = "ensure_from_sql_dump")
           => retval = BoolStr(ReadyFile(pre.file))

C12_Witness ==
    /\ pc = "done"
    /\ op = "ensure_from_sql_dump"
    /\ available
    /\ ~has_dump_path
    /\ IsReady
    /\ retval = "true"

\* C13 (as claimed): sync_from_sql_dump, maybe_sync_from_sql_dump and
\* ensure_from_sql_dump never raise when the dump is missing or unreadable,
\* also when it disappears between the existence test and the read: they
\* return (false for the two that return a value) and the previous mirror
\* stays in place.
C13_DumpTroubleNeverRaises ==
    (pc = "done" /\ op \in MirrorSyncOps) =>
        /\ outcome = "returned"
        /\ (Has("sync") /\ ~Has("replace") /\ ~Has("skip")) =>
               /\ Snapshot = pre
               /\ retval \in {"none", "false"}

\* C14 (as claimed): maybe_sync_from_sql_dump does nothing exactly when
\* auto_sync is on and less than sync_interval has elapsed since the last
\* sync; in every other case it enters sync_from_sql_dump.
C14_NoOpExactlyWhenThrottled ==
    Has("maybe_sync") =>
        (~SyncAttempted <=>
            (auto_sync /\ pre.last_sync # 0 /\ now - pre.last_sync < sync_interval))

\* C14 (amended): maybe_sync_from_sql_dump does nothing when the dependency
\* is absent, when auto_sync is off, or when sync_interval is non-zero, a
\* sync has succeeded before and less than sync_interval has elapsed since;
\* in every other case, a mirror that never synced included, it enters
\* sync_from_sql_dump, not forced.
C14_NoOpWhenOffOrThrottled ==
    Has("maybe_sync") =>
        /\ SyncAttempted <=>
               /\ available
               /\ auto_sync
               /\ ~(/\ sync_interval # 0
                    /\ pre.last_sync # 0
                    /\ now - pre.last_sync < sync_interval)
        /\ SyncAttempted => ~force

C14_Witness ==
    /\ pc = "done"
    /\ op = "maybe_sync_from_sql_dump"
    /\ available
    /\ auto_sync
    /\ pre.last_sync # 0
    /\ now - pre.last_sync < sync_interval
    /\ ~Has("sync")

\* C15 (as claimed): whenever sync_from_sql_dump rebuilds and returns true
\* the mirror is Ready on return (the secondary file exists and holds every
\* mirrored table), and a true result of ensure_from_sql_dump implies Ready.
C15_RebuildTrueImpliesReady ==
    /\ (pc = "done" /\ Has("replace") /\ Has("sync_true")) => IsReady
    /\ (pc = "done" /\ op = "ensure_from_sql_dump" /\ retval = "true") => IsReady


\* ----------------------------------------------------------- router claims
PrimaryEvents == {"connect", "read_sql", "ok", "ConnRefused", "SyntaxErr", "OtherRefused", "sleep"}

\* The place of the first event ev in the trace.
FirstAt(ev) == CHOOSE i \in 1..Len(trace) : trace[i] = ev /\ \A j \in 1..(i - 1) : trace[j] # ev

\* C27: within one query_df or vector_similarity call all primary attempts
\* come first; ensure_from_sql_dump is called only after the last primary
\* attempt failed with a transient error and the retries were exhausted;
\* the mirror is queried only after ensure_from_sql_dump returned true; in
\* a call whose primary attempt succeeded the mirror is neither rebuilt by
\* force nor queried.
C27_FallbackOrder ==
    op \in RouterQueryOps =>
        /\ \A j \in 2..Len(trace) :
               trace[j] \in PrimaryEvents => trace[j - 1] \in PrimaryEvents
        /\ (pc = "ensure" \/ Has("ensure")) =>
               LET e == IF Has("ensure") THEN FirstAt("ensure") ELSE Len(trace) + 1
               IN /\ e > 1
                  /\ trace[e - 1] = "ConnRefused"
                  /\ \A j \in 1..(e - 1) : trace[j] \in {"connect", "read_sql", "ConnRefused", "sleep"}
                  /\ TransientFailures = max_retries
                  /\ attempts = max_retries
                  /\ IsTransientOperationalError(exc)
        /\ pc = "mirror_query" => trace[Len(trace)] = "ensure_true"
        /\ Has("mirror_query") =>
               /\ trace[Len(trace)] = "mirror_query"
               /\ trace[Len(trace) - 1] = "ensure_true"
               /\ Count(trace, "mirror_query") = 1
        /\ Has("ok") =>
               /\ ~Has("ensure")
               /\ ~Has("mirror_query")
               /\ pc # "mirror_query"
               /\ (pc = "sync_load" \/ Has("load")) => ~force

C27_Witness ==
    /\ pc = "done"
    /\ op = "vector_similarity"
    /\ max_retries = 2
    /\ Has("ensure")
    /\ Has("replace")
    /\ Has("mirror_query")
    /\ outcome = "returned"

\* C28 (as claimed): when the mirror query fails during fallback, query_df
\* and vector_similarity both raise the primary error that started the
\* fallback, never the mirror's own error, and return no rows.
C28_MirrorFailureRaisesPrimaryError ==
    (pc = "done" /\ op \in RouterQueryOps /\ Has("mirror_query") /\ outcome = "raised")
    => (err = exc /\ err \in PrimaryErrors /\ result = NoResult)

\* C29: _last_sync and _last_dump_mtime change only in the step of
\* sync_from_sql_dump that follows a successful rebuild: is_ready, the
\* mirror's queries, and a sync that skips or fails leave them alone;
\* available and the configuration of the mirror never change.
C29_MirrorStateFrame ==
    [][/\ cfgvars' = cfgvars
       /\ <<last_sync, last_dump_mtime>>' # <<last_sync, last_dump_mtime>> =>
              /\ pc = "sync_load"
              /\ \E i \in 1..Len(trace') : trace'[i] = "replace"
              /\ file' # NoFile
              /\ last_sync' = now
              /\ last_dump_mtime' = dump_mtime]_vars

C29_Witness ==
    /\ pc = "done"
    /\ op = "sync_from_sql_dump"
    /\ Has("fault")
    /\ retval = "false"
    /\ pre.last_dump_mtime # 0
    /\ dump_mtime > pre.last_dump_mtime
    /\ last_dump_mtime = pre.last_dump_mtime
    /\ last_sync = pre.last_sync

\* C30: execute is never re-issued against the mirror: when the primary
\* fails, transiently after max_retries attempts or otherwise at once,
\* execute raises the primary error; the secondary file changes only
\* through a rebuild from the dump, never through execute, query_df or
\* vector_similarity handing a statement to the mirror.
C30_ExecuteNeverFallsBack ==
    /\ op = "execute" =>
           /\ \A i \in 1..Len(trace) : trace[i] \in PrimaryEvents
           /\ pc \in {"primary", "done"}
           /\ Snapshot = pre
           /\ (pc = "done" /\ ~Has("ok")) =>
                  /\ outcome = "raised"
                  /\ err \in PrimaryErrors
                  /\ result = NoResult
                  /\ trace[Len(trace)] = ErrName(err)
                  /\ (err.type = "OperationalError" /\ IsTransientOperationalError(err)) =>
                         (attempts = max_retries /\ Connects = max_retries)
                  /\ (err.type # "OperationalError" \/ ~IsTransientOperationalError(err)) =>
                         Count(trace, ErrName(err)) = 1
    /\ (pc \notin {"idle", "off"} /\ file # pre.file) => Has("replace")

C30_Witness ==
    /\ pc = "done"
    /\ op = "execute"
    /\ attached
    /\ IsReady
    /\ max_retries = 2
    /\ TransientFailures = 2
    /\ outcome = "raised"
    /\ err = ConnRefused

\* ------------------------------------------------- error classification
\* The shapes a primary error may take: class, message and code.
ErrorShapes ==
    PrimaryErrors \cup
    { [type |-> t, msg |-> m, code |-> c] :
          t \in {"OperationalError", "InterfaceError"},
          m \in {ConnRefused.msg, SyntaxErr.msg},
          c \in {"08001", "57P01"} }

\* The attempt in progress, were it to raise e, would be tried again.
RetriedAfter(e) == ENABLED (PrimaryFails(e, "connect") /\ pc' = "primary")

\* The attempt in progress, were it to raise e, would lead to the mirror.
FallsBackAfter(e) == ENABLED (PrimaryFails(e, "connect") /\ pc' = "ensure")

\* C32 (as claimed): whether a failed primary attempt is retried, and
\* whether the mirror fallback is tried, is decided by the error's message
\* alone: two errors with the same message get the same retry decision and
\* the same fallback decision whatever their class or code.
C32_DecidedByMessageAlone ==
    pc = "primary" =>
        LET retried == {e \in ErrorShapes : RetriedAfter(e)}
            mirrored == {e \in ErrorShapes : FallsBackAfter(e)}
        IN \A e1, e2 \in ErrorShapes :
               e1.msg = e2.msg =>
                   /\ e1 \in retried <=> e2 \in retried
                   /\ e1 \in mirrored <=> e2 \in mirrored

\* C32 (amended): only an error of class OperationalError is retried or
\* leads to the mirror, and among these the message alone decides: two
\* OperationalErrors with the same message get the same decisions whatever
\* their code, a retry exactly when the message is transient and attempts
\* remain, the fallback exactly when the message is transient, no attempt
\* remains, a mirror is attached and the operation is a query. An error of
\* another class is raised at once whatever its message.
C32_DecidedByClassAndMessage ==
    /\ pc = "primary" =>
           LET retried == {e \in ErrorShapes : RetriedAfter(e)}
               mirrored == {e \in ErrorShapes : FallsBackAfter(e)}
           IN \A e1 \in ErrorShapes :
                  /\ \A e2 \in ErrorShapes :
                         (e1.msg = e2.msg /\ e1.type = e2.type) =>
                             /\ e1 \in retried <=> e2 \in retried
                             /\ e1 \in mirrored <=> e2 \in mirrored
                  /\ e1 \in retried <=>
                         /\ e1.type = "OperationalError"
                         /\ IsTransientOperationalError(e1)
                         /\ attempts + 1 < max_retries
                  /\ e1 \in mirrored <=>
                         /\ e1.type = "OperationalError"
                         /\ IsTransientOperationalError(e1)
                         /\ attempts + 1 >= max_retries
                         /\ attached
                         /\ op \in RouterQueryOps
    /\ Has("OtherRefused") =>
           /\ pc = "done"
           /\ trace[Len(trace)] = "OtherRefused"
           /\ outcome = "raised"
           /\ err = OtherRefused
           /\ ~Has("ensure")
           /\ Count(trace, "OtherRefused") = 1

C32_Witness ==
    /\ pc = "done"
    /\ op = "query_df"
    /\ attached
    /\ IsReady
    /\ max_retries = 2
    /\ trace = <<"connect", "OtherRefused">>
    /\ err.msg = ConnRefused.msg
    /\ outcome = "raised"

\* C33 (as claimed): a successful primary result is never lost to the sync
\* that follows it: when the primary attempt of query_df or
\* vector_similarity succeeds, the caller receives exactly that result,
\* whether maybe_sync_from_sql_dump skips, rebuilds or fails (dump missing,
\* dump removed during the check, rebuild error).
C33_PrimaryResultNeverLost ==
    (pc = "done" /\ op \in RouterQueryOps /\ Has("ok")) =>
        /\ outcome = "returned"
        /\ err = NoErr
        /\ result = PrimaryResult(qtable)

\* --------------------------------------------------------- throttle claims
\* maybe_sync_from_sql_dump is about to run _load_sql_dump.
AttemptStarts == pc = "sync_load" /\ Via(trace) = "maybe"

\* C35 (as claimed): with auto_sync on and sync_interval > 0, after any
\* rebuild attempt started through maybe_sync_from_sql_dump, successful or
\* failed, maybe_sync_from_sql_dump starts no further rebuild attempt until
\* sync_interval has elapsed, however many primary operations succeed in
\* between.
C35_AttemptsThrottled ==
    (AttemptStarts /\ auto_sync /\ sync_interval > 0 /\ attempted.any > 0)
        => now - attempted.any >= sync_interval

\* C35 (amended): the same after a rebuild that succeeded; a failed attempt
\* does not throttle the next one.
C35_RebuildsThrottled ==
    (AttemptStarts /\ auto_sync /\ sync_interval > 0 /\ attempted.ok > 0)
        => now - attempted.ok >= sync_interval

\* A second query ends at the time of a rebuild, without a rebuild attempt.
C35_Witness ==
    /\ pc = "done"
    /\ op = "query_df"
    /\ sync_interval > 0
    /\ attempted.ok = now
    /\ last_sync = now
    /\ pre.last_sync = now
    /\ Has("ok")
    /\ trace[Len(trace)] = "maybe_sync"
    /\ dump.exists
    /\ dump.mtime > last_dump_mtime

\* ------------------------------------------------- concurrent sync claims
\* No sync is in progress.
Quiet == \A t \in Threads : ~Syncing(t)

\* The bookkeeping is not ahead of the dump version the live file holds.
NotFresherThanBuilt ==
    (file.exists /\ last_dump_mtime # 0) => last_dump_mtime <= file.src

\* C34 (as claimed): the mirror is never recorded as fresher than it is:
\* whenever the live file exists and _last_dump_mtime is not zero,
\* _last_dump_mtime is not later than the modification time of the dump
\* version the live file was built from, after every sequential run of
\* syncs and after every interleaving of two concurrent sync_from_sql_dump
\* calls with the dump changing between them.
C34_NeverRecordedFresher == Quiet => NotFresherThanBuilt

\* C34 (amended): the same, as long as no two sync_from_sql_dump calls
\* overlapped and the dump was not replaced by an older file between a
\* call's getmtime and its load.
C34_NeverRecordedFresherSequentially == (Quiet /\ ~raced) => NotFresherThanBuilt

C34_Witness ==
    /\ ~raced
    /\ \A t \in Threads : threads[t].pc = "done" /\ threads[t].ret = "true"
    /\ threads[1].dump_mtime # threads[2].dump_mtime
    /\ file.exists
    /\ last_dump_mtime = file.src

\* ------------------------------------------------------- retry loop claims
Sleeps == Count(trace, "sleep")

\* What holds of the attempts and sleeps of a call at every moment.
RetryLoopBounded ==
    /\ Connects <= max_retries
    /\ Sleeps <= max_retries - 1
    /\ \A i \in 1..Len(trace) :
           /\ trace[i] = "sleep" =>
                  /\ i > 1
                  /\ trace[i - 1] = "ConnRefused"
                  /\ Count(SubSeq(trace, 1, i), "connect") < max_retries
           /\ trace[i] = "ok" => i = Len(trace)
    /\ pc = "primary" => (~Has("ok") /\ Connects < max_retries)
    /\ pc = "done" =>
           /\ trace[Len(trace)] # "sleep"
           /\ \/ /\ outcome = "returned"
                 /\ trace[Len(trace)] = "ok"
                 /\ result = IF op = "execute" THEN NoResult ELSE PrimaryResult(qtable)
              \/ /\ outcome = "raised"
                 /\ ~Has("ok")
                 /\ err \in PrimaryErrors
                 /\ trace[Len(trace)] = ErrName(err)

\* C31: provided each single primary attempt returns or raises,
\* _run_with_retries always terminates, with the result of a successful
\* attempt or by raising, after at most max_retries attempts and at most
\* max_retries - 1 sleeps; no sleep follows a successful attempt or the
\* final failed attempt.
C31_RetriesTerminate ==
    /\ []RetryLoopBounded
    /\ (pc = "primary") ~> (pc = "done")

C31_Witness ==
    /\ pc = "done"
    /\ op = "query_df"
    /\ max_retries = 3
    /\ retry_interval # 0
    /\ Connects = 3
    /\ Sleeps = 2
    /\ outcome = "raised"
    /\ err = ConnRefused

\* ----------------------------------------------------------- loader claims
\* C11: during a rebuild the live secondary file is the complete previous
\* mirror; it changes in the replace step only, which comes after every
\* line of the dump was processed and the temporary store was checkpointed
\* and closed, and then holds exactly what the temporary store held.
C11_ReplaceIsAtomic ==
    /\ lpc \in {"read", "exec", "replace"} => live = pre_live
    /\ live # pre_live =>
           /\ lpc = "returned"
           /\ ok
           /\ closed
           /\ live = built

C11_Witness ==
    /\ lpc = "returned"
    /\ ok
    /\ pre_live = OldDb
    /\ live # pre_live
    /\ live.rows["vip_products"] = 1
    /\ live.rows["vip_brands"] = Absent

\* C16: a rebuild that follows a successful rebuild from the same dump
\* leaves the tables and the row count of every table as the earlier one
\* left them: no row is duplicated or lost.
C16_RebuildTwiceSameContent ==
    (lpc = "returned" /\ ok /\ rebuilds >= 2 /\ first_live # Unset)
    => live = first_live

C16_Witness ==
    /\ lpc = "returned"
    /\ ok
    /\ rebuilds = 2
    /\ pre_live = first_live
    /\ live = first_live
    /\ live.rows["vip_products"] = 1

\* What a dump without malformed headers must leave in the store: every
\* table created, every block loaded whose table exists by then and whose
\* rows fit; a block without terminator takes the lines up to the next
\* terminator as its rows, which do not fit.
RECURSIVE AfterNextBlock(_)
AfterNextBlock(items) ==
    IF items = <<>> THEN <<>>
    ELSE IF Head(items).item = "block" THEN Tail(items)
         ELSE AfterNextBlock(Tail(items))

RECURSIVE ExpectedDb(_, _)
ExpectedDb(items, db) ==
    IF items = <<>> THEN db
    ELSE LET it == Head(items)
         IN CASE it.item = "create" ->
                    ExpectedDb(Tail(items),
                               IF db.rows[it.table] = Absent
                               THEN [db EXCEPT !.rows[it.table] = 0]
                               ELSE db)
              [] it.item = "block" ->
                    ExpectedDb(Tail(items),
                               IF it.good /\ db.rows[it.table] # Absent
                               THEN [db EXCEPT !.rows[it.table] = @ + 1]
                               ELSE db)
              [] it.item = "open_block" -> ExpectedDb(AfterNextBlock(Tail(items)), db)
              [] OTHER -> ExpectedDb(Tail(items), db)

HasBadHeader == \E k \in 1..Len(dump_items) : dump_items[k] = BadHeaderItem

\* C17: a block whose load fails (its table does not exist, a row does not
\* fit) is skipped alone: unless an I/O operation raises the rebuild goes on
\* to the end and sync_from_sql_dump returns True, and every table and block
\* of the dump that can be loaded, those after the failed block included,
\* is in the mirror.
C17_FailedBlockSkippedAlone ==
    ~HasBadHeader =>
        /\ (lpc = "returned" /\ ~faulted) => ok
        /\ (lpc = "returned" /\ ok) => live = ExpectedDb(dump_items, EmptyDb)

C17_Witness ==
    /\ lpc = "returned"
    /\ ok
    /\ ~HasBadHeader
    /\ Len(dump_items) = 3
    /\ dump_items[1].item = "block"
    /\ dump_items[2].item = "create"
    /\ skipped = 1
    /\ live.rows["vip_products"] = 1

WithoutBadHeaders(items) == SelectSeq(items, LAMBDA it : it # BadHeaderItem)

\* C18 (as claimed): a bulk-load header that cannot be parsed makes the
\* parser discard the block's rows and terminator; the entries it yields
\* are those it would yield for the dump without the malformed block.
C18_MalformedBlockLeavesNoTrace ==
    lpc = "replace" =>
        emitted = IterateDumpEntries(DumpLines(WithoutBadHeaders(dump_items)))

\* C20 (as claimed): every spool file is deleted by the time
\* sync_from_sql_dump returns, on every path, and none is deleted while the
\* block it holds is still to be loaded.
C20_SpoolFilesDeleted ==
    /\ lpc = "returned" => spools = {}
    /\ (lpc = "exec" /\ entry.kind = "copy" /\ copy_info.temp_path # NoPath)
       => copy_info.temp_path \in spools

\* What executing the entries, in order, leaves in a store.
RECURSIVE ApplyEntries(_, _)
ApplyEntries(entries, db) ==
    IF entries = <<>> THEN db
    ELSE ApplyEntries(Tail(entries),
                      IF Head(entries).kind = "sql"
                      THEN ExecuteSqlStatement(db, Head(entries).statement)
                      ELSE ExecuteCopy(db, Head(entries)))

\* C23: a statement the secondary rejects is skipped and nothing else:
\* every entry of the dump is yielded and executed in order, entries after
\* a rejected statement included, and unless an I/O operation raises the
\* rebuild completes, returns True and the store it built is the live file.
C23_RejectedStatementSkippedAlone ==
    /\ lpc = "replace" =>
           /\ emitted = IterateDumpEntries(dump_lines)
           /\ tmpdb = ApplyEntries(emitted, EmptyDb)
    /\ (lpc = "returned" /\ ~faulted) =>
           /\ ok
           /\ live.exists
           /\ live = ApplyEntries(IterateDumpEntries(dump_lines), EmptyDb)

C23_Witness ==
    /\ lpc = "returned"
    /\ ok
    /\ dump_items = <<CreateItem("vip_products"), CreateItem("vip_products"),
                      CreateItem("vip_brands")>>
    /\ live.rows["vip_products"] = 0
    /\ live.rows["vip_brands"] = 0

\* C26: when sync_from_sql_dump returns, nothing is left at the temporary
\* path of the rebuild: after a successful rebuild the temporary store has
\* become the live file, after a failed one it was deleted and the live
\* file is the one the rebuild started from.
C26_TemporaryStoreGone ==
    lpc = "returned" =>
        /\ ~tmpdb.exists
        /\ ok => (built.exists /\ live = built)
        /\ ~ok => live = pre_live

C26_Witness ==
    /\ lpc = "returned"
    /\ ~ok
    /\ faulted
    /\ closed
    /\ built.exists
    /\ built.rows["vip_products"] = 1
    /\ ~tmpdb.exists
    /\ live = pre_live

\* -------------------------------------------------- statement filter claims
\* The words of a statement, upper case, without white space and ";".
WordsOf(text) ==
    SelectSeq(Upper(text), LAMBDA t : ~IsSpace(t) /\ t # Semi)

\* The kinds of statement the claim excludes: session settings, privilege
\* grants and revokes, comments, extension management, index management,
\* transaction markers.
ExcludedKind(text) ==
    LET ws == WordsOf(text)
    IN \/ ws[1].w \in {"SET", "GRANT", "REVOKE", "COMMENT", "BEGIN", "COMMIT", "START"}
       \/ /\ Len(ws) >= 2
          /\ ws[1].w \in {"CREATE", "DROP"}
          /\ ws[2].w \in {"EXTENSION", "INDEX", "UNIQUE"}
       \/ /\ Len(ws) >= 2
          /\ ws[1].w = "SELECT"
          /\ ws[2].w = "PG_CATALOG"

\* C24 (as claimed): no statement of an excluded kind is handed to the
\* secondary, whatever its letter case and white space, and every
\* statement of another kind is.
C24_ExactlyExcludedKindsSkipped ==
    spc = "done" => (executed = NoText <=> ExcludedKind(sql_text))

\* The tokens the rewrite does not touch.
Untouched(text) ==
    SelectSeq(text, LAMBDA t :
        /\ ~IsSpace(t)
        /\ t.w \notin {VectorType, "TEXT", "DEFAULT", NextvalRegclass, NextvalPlain})

\* C25 (as claimed): a statement handed to the secondary holds no
\* vector(N) type and no nextval default, and is otherwise the statement of
\* the dump.
C25_NoPrimaryOnlySyntaxExecuted ==
    (spc = "done" /\ executed # NoText) =>
        /\ \A k \in 1..Len(executed) :
               executed[k].w \notin {VectorType, NextvalRegclass, NextvalPlain}
        /\ Untouched(executed) = Untouched(Normalise(sql_text))

\* ----------------------------------------------------------- parser claims
\* The entries the generator would yield if blank lines and "--" comments
\* that come before the first line of a statement or header were absent.
RECURSIVE IterateIgnoringLeaders(_, _, _, _)
IterateIgnoringLeaders(ls, i, sl, ci) ==
    IF i > Len(ls) THEN <<>>
    ELSE IF ~ci.active /\ sl = <<>> /\ ls[i].kind \in {"blank", "comment"}
         THEN IterateIgnoringLeaders(ls, i + 1, sl, ci)
         ELSE LET r == ParseLine(sl, ci, ls[i], i, TRUE)
              IN IF r.out = NoEntry
                 THEN IterateIgnoringLeaders(ls, i + 1, r.sl, r.ci)
                 ELSE <<r.out>> \o IterateIgnoringLeaders(ls, i + 1, r.sl,
                                        IF r.out.kind = "copy" THEN NoCopy ELSE r.ci)

\* C21 (as claimed): outside a block a statement is emitted at each line
\* that ends with ";", and blank lines and "--" comment lines in front of
\* the first line of a statement or of a bulk-load header leave no mark:
\* the entries are those of the dump without these lines.
C21_LeadingLinesLeaveNoMark ==
    lpc = "parsed" =>
        emitted = IterateIgnoringLeaders(dump_lines, 1, <<>>, NoCopy)

\* C22: after a recognised header every line up to the first "\." is a
\* data row of the block, kept in order and never yielded as or merged
\* into a statement, also when it ends with ";" or starts with "--"; the
\* block is yielded once, at its terminator; entries are yielded in dump
\* order, each made of lines of its own.
C22_BlockRowsAreData ==
    /\ Len(spans) = Len(emitted)
    /\ \A k \in 1..Len(emitted) :
           /\ 1 <= spans[k].from
           /\ spans[k].from <= spans[k].at
           /\ spans[k].at < li
           /\ k > 1 => spans[k - 1].at < spans[k].from
           /\ EndsStatement(dump_lines[spans[k].at]) \/ emitted[k].kind = "copy"
           /\ emitted[k].kind = "copy" =>
                  /\ dump_lines[spans[k].from].kind = "copy"
                  /\ dump_lines[spans[k].at].kind = "term"
                  /\ \A j \in (spans[k].from + 1)..(spans[k].at - 1) :
                         dump_lines[j].kind # "term"
                  /\ emitted[k].data =
                         SubSeq(dump_lines, spans[k].from + 1, spans[k].at - 1)
    /\ copy_info.active =>
           LET h == copy_info.temp_path.at
           IN /\ dump_lines[h].kind = "copy"
              /\ copy_info.data = SubSeq(dump_lines, h + 1, li - 1)
              /\ \A j \in (h + 1)..(li - 1) : dump_lines[j].kind # "term"
              /\ \A k \in 1..Len(emitted) : spans[k].at < h

C22_Witness ==
    /\ lpc = "parsed"
    /\ Len(emitted) = 1
    /\ emitted[1].kind = "copy"
    /\ Len(emitted[1].data) = 2
    /\ emitted[1].data[1].kind = "row_semi"
    /\ emitted[1].data[2].kind = "comment"

\* --------------------------------------------------- vector search claims
ValidCandidates ==
    {i \in 1..Len(stored) :
        /\ stored[i].form = "json_list"
        /\ Len(stored[i].vec) = Len(query_vector)}

Dist(i) == DistanceSq(stored[i], query_vector)

\* Row i comes before row j: it is nearer, or as near and stored earlier.
Before(i, j) == Dist(i) < Dist(j) \/ (Dist(i) = Dist(j) /\ i < j)

Returned == {vresult[k] : k \in 1..Len(vresult)}

\* C19: for limit >= 1 and a valid query vector, the mirror's
\* vector_similarity returns min(limit, candidates) rows, all of them rows
\* whose embedding is not null, parses and has the query's dimension, in
\* non-decreasing order of distance with ties in stored order; every row
\* left out is no nearer than any row returned; an exact match comes first.
C19_NearestFirstStable ==
    (vpc = "done" /\ limit >= 1 /\ query_vector # <<>>) =>
        /\ voutcome = "returned"
        /\ Returned \subseteq ValidCandidates
        /\ Len(vresult) = Min(limit, Cardinality(ValidCandidates))
        /\ \A j, k \in 1..Len(vresult) : j < k => Before(vresult[j], vresult[k])
        /\ \A i \in ValidCandidates \ Returned : \A r \in Returned : Before(r, i)
        /\ (\E i \in ValidCandidates : Dist(i) = 0)
           => (vresult # <<>> /\ Dist(vresult[1]) = 0)

C19_Witness ==
    /\ vpc = "done"
    /\ limit = 2
    /\ Len(vresult) = 2
    /\ Dist(vresult[1]) = 0
    /\ Dist(vresult[2]) = 0
    /\ \E i \in 1..Len(stored) : stored[i] = JsonList(<<0>>)

\* C36 (as claimed): for every integer limit >= 0 the mirror's
\* vector_similarity returns exactly min(limit, c) rows, c being the number
\* of candidates with a non-null embedding of the query's dimension; it
\* never returns more rows than limit.
C36_ExactlyMinLimitRows ==
    (vpc = "done" /\ voutcome = "returned") =>
        /\ Len(vresult) = Min(limit, Cardinality(ValidCandidates))
        /\ Len(vresult) <= limit

\* C36 (amended): the limit is raised to 1 when it is smaller:
\* vector_similarity returns exactly min(max(limit, 1), c) rows, so one row
\* for limit 0 when there is a candidate, and never more than max(limit, 1).
C36_ExactlyMinClampedLimitRows ==
    (vpc = "done" /\ voutcome = "returned") =>
        /\ Len(vresult) = Min(Max(limit, 1), Cardinality(ValidCandidates))
        /\ Len(vresult) <= Max(limit, 1)
        /\ Returned \subseteq ValidCandidates
        /\ Cardinality(Returned) = Len(vresult)

C36_Witness ==
    /\ vpc = "done"
    /\ voutcome = "returned"
    /\ limit = 0
    /\ Cardinality(ValidCandidates) >= 2
    /\ Len(vresult) = 1

\* ---------------------------------------------------- global handle claims
\* The calls of get_db that returned.
ReturnedCalls == {i \in 1..Len(db_log) : db_log[i].outcome = "returned"}

\* C37: get_db returns one and the same DBManager on every call: the
\* manager is constructed once, by the first call that returns, from that
\* call's url (the environment's when none was passed), and a url passed on
\* a later call is ignored rather than producing a manager for that url.
C37_OneSharedManager ==
    \A i \in ReturnedCalls :
        LET first == CHOOSE k \in ReturnedCalls : \A j \in ReturnedCalls : k <= j
        IN /\ db_log[i].instance = db_log[first].instance
           /\ db_log[i].instance = global_db
           /\ global_db.id = first
           /\ global_db = DBManagerFor(db_log[first].url, first)

C37_Witness ==
    /\ Len(db_log) >= 3
    /\ db_log[1].url = "pg_a"
    /\ db_log[2].url = "pg_b"
    /\ db_log[3].url = "none"
    /\ db_log[3].outcome = "returned"
    /\ db_log[2].instance.url = "pg_a"
    /\ db_log[3].instance = db_log[1].instance

\* ----- C38
\* The specialists that produced a non-empty response, most relevant first.
Responded(req) ==
    SelectSeq(Collect(SortByScore(ScoreRecords(req)), 1, <<>>, -1).records,
              LAMBDA r : r.status # "error" /\ r.response # <<>>)

\* The response with the highest evaluator score, the most relevant
\* specialist among equal scores.
BestOf(recs) ==
    recs[CHOOSE k \in 1..Len(recs) :
             /\ \A j \in 1..Len(recs) : recs[j].evaluation <= recs[k].evaluation
             /\ \A j \in 1..(k - 1) : recs[j].evaluation < recs[k].evaluation].response

GeneralFails(req) ==
    req.general = "raise" \/ Evaluate(Text("General", req.general)) < EvaluatorThreshold

Choice(response, source) == [response |-> response, source |-> source]

Chosen(req) ==
    IF GeneralFails(req) /\ Responded(req) # <<>>
    THEN Choice(BestOf(Responded(req)), "specialist")
    ELSE IF req.general = "raise" THEN Choice(Apology, "fallback")
    ELSE Choice(Text("General", req.general), "general")

\* C38: handle_request returns the general agent's response unless the
\* general agent raises or scores below the threshold while at least one
\* specialist produced a non-empty response, and then it returns the
\* specialist response with the highest evaluator score, the most relevant
\* among equals; it returns the apology only when the general agent raises
\* and no specialist responded; final_response_source and fallback_used of
\* the trace match the choice.
C38_FallsBackToBestSpecialist ==
    (reply.op = "handle_request" /\ reply.outcome = "returned") =>
        /\ reply.response = Chosen(asked).response
        /\ heap[last_trace].final_response = reply.response
        /\ heap[last_trace].final_response_source = Chosen(asked).source
        /\ heap[last_trace].fallback_used = (Chosen(asked).source # "general")

\* ----- C39
\* C39: get_last_trace() is None before the first completed request and
\* afterwards describes the most recent completed request; a request
\* rejected for an empty chat_history leaves it unchanged; a trace handed
\* out by return_trace=True or by get_last_trace is an independent copy, so
\* that changing it, or the caller's chat_history, changes nothing of what
\* get_last_trace returns.
C39_LastTraceIndependent ==
    /\ DeepValue(heap, last_trace) = completed
    /\ reply.op = "get_last_trace" => reply.trace = completed
    /\ (reply.op = "handle_request" /\ reply.outcome = "returned") =>
           /\ completed # NoTrace
           /\ completed.user_request = asked.user_request
           /\ completed.final_response = reply.response
           /\ asked.return_trace => reply.trace = completed
    /\ (reply.op = "none") => completed = NoTrace

\* A request is rejected after one has completed, while the caller holds a
\* trace it has changed and a chat_history it has emptied.
C39_Witness ==
    /\ reply.op = "handle_request"
    /\ reply.outcome = "raised"
    /\ completed # NoTrace
    /\ handed # "none"
    /\ DeepValue(heap, handed) # completed
    /\ DeepValue(heap, handed).general.response = <<"mutated">>
    /\ heap["caller.history"].items # completed.chat_history.items
    /\ DeepValue(heap, last_trace) = completed

====
